---- MODULE Spec2Model ----
(***************************************************************************)
(* Market Dependency Graph Engine of polymarket-visual.                    *)
(*                                                                         *)
(* The model follows web/src/hooks/useDependencyData.ts (the assembler),   *)
(* web/src/lib/correlation.ts, lib/entities.ts and lib/temporal.ts.        *)
(*                                                                         *)
(* Conventions of the model                                                *)
(*   - market and event ids are positive integers (their order stands for  *)
(*     the string order of the ids); NULL is the null center id;           *)
(*   - an optional field is a sequence: << >> when undefined, <<v>> else;  *)
(*   - a number that is a fraction in the code (a weight, a volatility) is *)
(*     an exact rational [n |-> .., d |-> ..] in lowest terms;             *)
(*   - prices are in cents (1/100); returns, correlations and thresholds   *)
(*     are in thousandths, rounded toward zero;                            *)
(*   - time is counted in hours.                                           *)
(***************************************************************************)
EXTENDS Integers, Sequences, FiniteSets, TLC

(***************************************************************************)
(* Arithmetic helpers                                                      *)
(***************************************************************************)
Abs(x) == IF x < 0 THEN 0 - x ELSE x

Min2(a, b) == IF a <= b THEN a ELSE b

Max2(a, b) == IF a >= b THEN a ELSE b

SetMin(S) == CHOOSE x \in S : \A y \in S : x <= y

RECURSIVE GCD(_, _)
GCD(a, b) == IF b = 0 THEN a ELSE GCD(b, a % b)

\* the rational n/d (d > 0) in lowest terms
Q(n, d) == LET g == GCD(Abs(n), d) IN [n |-> n \div g, d |-> d \div g]

QLess(a, b) == a.n * b.d < b.n * a.d

QLeq(a, b) == a.n * b.d <= b.n * a.d

QZero == Q(0, 1)

QOne == Q(1, 1)

\* Array.prototype.sort with a comparator, which is stable: x goes before the
\* first element it must precede, Before(x, y) being "compare(x, y) < 0".
SortInsert(sorted, x, Before(_, _)) ==
    LET At(p) == SubSeq(sorted, 1, p - 1) \o <<x>> \o SubSeq(sorted, p, Len(sorted))
        FirstOf(idx) == IF idx = {} THEN Len(sorted) + 1 ELSE SetMin(idx)
    IN At(FirstOf({i \in 1..Len(sorted) : Before(x, sorted[i])}))

StableSort(s, Before(_, _)) ==
    LET f[i \in Nat] ==
            IF i = 0 THEN << >> ELSE SortInsert(f[i - 1], s[i], Before)
    IN f[Len(s)]

\* Array.prototype.slice(0, k)
Slice0(s, k) ==
    SubSeq(s, 1, IF k < 0 THEN Max2(Len(s) + k, 0) ELSE Min2(k, Len(s)))

\* Array.prototype.reduce / a for-of loop carrying its state
FoldSeq(s, acc0, Step(_, _)) ==
    LET f[i \in Nat] == IF i = 0 THEN acc0 ELSE Step(f[i - 1], s[i])
    IN f[Len(s)]

Range(s) == {s[i] : i \in 1..Len(s)}

\* Array.prototype.find: << >> (undefined) or <<first match>>
Find(s, Test(_)) ==
    LET FirstOf(idx) == IF idx = {} THEN << >> ELSE <<s[SetMin(idx)]>>
    IN FirstOf({i \in 1..Len(s) : Test(s[i])})

RECURSIVE FlatMap(_)
FlatMap(ss) == IF ss = << >> THEN << >> ELSE Head(ss) \o FlatMap(Tail(ss))

TruncDiv(a, b) == IF a >= 0 THEN a \div b ELSE 0 - ((0 - a) \div b)

RECURSIVE ISqrtSearch(_, _, _)
ISqrtSearch(n, lo, hi) ==
    IF lo >= hi THEN lo
    ELSE LET mid == (lo + hi + 1) \div 2
         IN IF mid * mid <= n THEN ISqrtSearch(n, mid, hi)
            ELSE ISqrtSearch(n, lo, mid - 1)

\* Math.sqrt, rounded down to an integer
ISqrt(n) == ISqrtSearch(n, 0, Min2(n, 46340))

RECURSIVE SumSeq(_)
SumSeq(s) == IF s = << >> THEN 0 ELSE Head(s) + SumSeq(Tail(s))

(***************************************************************************)
(* Map<K, V>: an insertion-ordered sequence of [key, value] entries.       *)
(* Map.set on a present key replaces the value in place.                   *)
(***************************************************************************)
MapHas(m, k) == \E i \in 1..Len(m) : m[i].key = k

MapGet(m, k) ==
    LET FirstOf(idx) == IF idx = {} THEN << >> ELSE <<m[SetMin(idx)].value>>
    IN FirstOf({i \in 1..Len(m) : m[i].key = k})

MapSet(m, k, v) ==
    IF MapHas(m, k)
    THEN [i \in 1..Len(m) |-> IF m[i].key = k THEN [key |-> k, value |-> v] ELSE m[i]]
    ELSE Append(m, [key |-> k, value |-> v])

MapValues(m) == [i \in 1..Len(m) |-> m[i].value]

MapKeys(m) == [i \in 1..Len(m) |-> m[i].key]

(***************************************************************************)
(* lib/correlation.ts: the time-series correlator                          *)
(* A PriceHistoryPoint is [timestamp, price], the price in cents.          *)
(***************************************************************************)
PointBefore(a, b) == a.timestamp < b.timestamp

\* a series left in the order it came in
Unsorted(series) == series

SortByTimestamp(series) == StableSort(series, PointBefore)

\* the index loop of interpolateAtTime: after is the first point at or after
\* the timestamp, before the last point at or before it seen until the loop
\* breaks; << >> is null
InterpAfterIdx(series, timestamp) ==
    {i \in 1..Len(series) : series[i].timestamp >= timestamp}

InterpBeforeIdx(series, timestamp) ==
    LET Upto(stop) == {i \in 1..stop : series[i].timestamp <= timestamp}
        StopOf(aft) == IF aft = {} THEN Len(series) ELSE SetMin(aft)
    IN Upto(StopOf(InterpAfterIdx(series, timestamp)))

InterpAfter(series, timestamp) ==
    LET FirstOf(aft) == IF aft = {} THEN << >> ELSE <<series[SetMin(aft)]>>
    IN FirstOf(InterpAfterIdx(series, timestamp))

InterpBefore(series, timestamp) ==
    LET LastOf(bef) ==
            IF bef = {} THEN << >>
            ELSE <<series[CHOOSE i \in bef : \A j \in bef : j <= i]>>
    IN LastOf(InterpBeforeIdx(series, timestamp))

\* << >> is null
interpolateAtTime(series, timestamp) ==
    LET Between(before, after) ==
            IF before = << >> /\ after = << >> THEN << >>
            ELSE IF before = << >> THEN <<after[1].price>>
            ELSE IF after = << >> THEN <<before[1].price>>
            ELSE IF before[1].timestamp = after[1].timestamp THEN <<before[1].price>>
            ELSE <<before[1].price +
                   TruncDiv((timestamp - before[1].timestamp)
                                * (after[1].price - before[1].price),
                            after[1].timestamp - before[1].timestamp)>>
    IN Between(InterpBefore(series, timestamp), InterpAfter(series, timestamp))

\* alignTimeSeries without its "startTime >= endTime" return
alignTimeSeriesUnchecked(seriesA, seriesB) ==
    LET Aligned(sortedB, kept) ==
            [alignedA |-> [i \in 1..Len(kept) |-> kept[i].price],
             alignedB |-> [i \in 1..Len(kept) |->
                              interpolateAtTime(sortedB, kept[i].timestamp)[1]]]
        Overlap(sortedA, sortedB, startTime, endTime) ==
            LET InOverlap(pt) ==
                    ~(pt.timestamp < startTime \/ pt.timestamp > endTime)
                    /\ interpolateAtTime(sortedB, pt.timestamp) # << >>
            IN Aligned(sortedB, SelectSeq(sortedA, InOverlap))
        Sorted(sortedA, sortedB) ==
            Overlap(sortedA, sortedB,
                    Max2(sortedA[1].timestamp, sortedB[1].timestamp),
                    Min2(sortedA[Len(sortedA)].timestamp,
                         sortedB[Len(sortedB)].timestamp))
    IN IF Len(seriesA) < 2 \/ Len(seriesB) < 2
       THEN [alignedA |-> << >>, alignedB |-> << >>]
       ELSE Sorted(SortByTimestamp(seriesA), SortByTimestamp(seriesB))

alignTimeSeries(seriesA, seriesB) ==
    LET Aligned(sortedB, kept) ==
            [alignedA |-> [i \in 1..Len(kept) |-> kept[i].price],
             alignedB |-> [i \in 1..Len(kept) |->
                              interpolateAtTime(sortedB, kept[i].timestamp)[1]]]
        Overlap(sortedA, sortedB, startTime, endTime) ==
            LET InOverlap(pt) ==
                    ~(pt.timestamp < startTime \/ pt.timestamp > endTime)
                    /\ interpolateAtTime(sortedB, pt.timestamp) # << >>
            IN IF startTime >= endTime
               THEN [alignedA |-> << >>, alignedB |-> << >>]
               ELSE Aligned(sortedB, SelectSeq(sortedA, InOverlap))
        Sorted(sortedA, sortedB) ==
            Overlap(sortedA, sortedB,
                    Max2(sortedA[1].timestamp, sortedB[1].timestamp),
                    Min2(sortedA[Len(sortedA)].timestamp,
                         sortedB[Len(sortedB)].timestamp))
    IN IF Len(seriesA) < 2 \/ Len(seriesB) < 2
       THEN [alignedA |-> << >>, alignedB |-> << >>]
       ELSE Sorted(SortByTimestamp(seriesA), SortByTimestamp(seriesB))

\* simple returns, in thousandths
computeReturns(prices) ==
    [i \in 1..(Len(prices) - 1) |->
        IF prices[i] # 0 THEN TruncDiv((prices[i + 1] - prices[i]) * 1000, prices[i])
        ELSE 0]

\* Pearson coefficient in thousandths
pearsonCorrelation(x, y) ==
    LET Ratio(numerator, denominator) ==
            IF denominator = 0 THEN 0 ELSE TruncDiv(numerator * 1000, denominator)
        Sums(n, meanX, meanY) ==
            Ratio(SumSeq([i \in 1..n |-> (x[i] - meanX) * (y[i] - meanY)]),
                  ISqrt(SumSeq([i \in 1..n |-> (x[i] - meanX) * (x[i] - meanX)])
                        * SumSeq([i \in 1..n |-> (y[i] - meanY) * (y[i] - meanY)])))
    IN IF Len(x) # Len(y) \/ Len(x) < 2 THEN 0
       ELSE Sums(Len(x), TruncDiv(SumSeq(x), Len(x)), TruncDiv(SumSeq(y), Len(x)))

\* min(1, log10(n + 1) / log10(51)) in thousandths, n = 0..50; 1000 beyond
ConfidenceTable ==
    <<0, 176, 279, 352, 409, 455, 494, 528, 558, 585,
       609, 631, 652, 671, 688, 705, 720, 735, 748, 761,
       774, 786, 797, 808, 818, 828, 838, 847, 856, 865,
       873, 881, 889, 896, 904, 911, 918, 925, 931, 938,
       944, 950, 956, 962, 968, 973, 979, 984, 989, 994,
       1000>>

\* the ratio of logarithms without its cap at 1: log10(52) / log10(51) beyond
\* the table
ConfidenceUncapped(n) ==
    IF n + 1 > Len(ConfidenceTable) THEN 1004 ELSE ConfidenceTable[n + 1]

Confidence(n) == IF n + 1 > Len(ConfidenceTable) THEN 1000 ELSE ConfidenceTable[n + 1]

computeCorrelation(seriesA, seriesB) ==
    LET OfReturns(returnsA, returnsB) ==
            IF Len(returnsA) < 3
            THEN [correlation |-> 0, confidence |-> 0, n |-> Len(returnsA)]
            ELSE [correlation |-> Max2(0 - 1000,
                                       Min2(1000, pearsonCorrelation(returnsA, returnsB))),
                  confidence |-> Confidence(Len(returnsA)),
                  n |-> Len(returnsA)]
        OfAligned(al) ==
            IF Len(al.alignedA) < 5
            THEN [correlation |-> 0, confidence |-> 0, n |-> Len(al.alignedA)]
            ELSE OfReturns(computeReturns(al.alignedA), computeReturns(al.alignedB))
    IN OfAligned(alignTimeSeries(seriesA, seriesB))

\* standard deviation of the returns over 0.1, capped at 1
computeVolatility(history) ==
    LET StdDev(returns, mean) ==
            ISqrt(SumSeq([i \in 1..Len(returns) |->
                             (returns[i] - mean) * (returns[i] - mean)])
                  \div Len(returns))
        OfReturns(returns) ==
            IF Len(returns) < 3 THEN QZero
            ELSE Q(Min2(100, StdDev(returns, TruncDiv(SumSeq(returns), Len(returns)))),
                   100)
    IN IF Len(history) < 5 THEN QZero
       ELSE OfReturns(computeReturns([i \in 1..Len(history) |-> history[i].price]))

CorrelationBefore(a, b) == Abs(b.correlation) - Abs(a.correlation) < 0

\* the same search without the test of the confidence
findCorrelatedMarketsAnyConfidence(targetMarketId, allHistories, threshold, maxResults) ==
    LET Push(correlations, marketId, result) ==
            IF Abs(result.correlation) >= threshold
            THEN Append(correlations,
                        [targetId |-> marketId, correlation |-> result.correlation,
                         confidence |-> result.confidence, n |-> result.n])
            ELSE correlations
        Loop(targetHistory) ==
            LET Step(correlations, e) ==
                    IF e.key = targetMarketId \/ Len(e.value) < 5 THEN correlations
                    ELSE Push(correlations, e.key,
                              computeCorrelation(targetHistory, e.value))
            IN Slice0(StableSort(FoldSeq(allHistories, << >>, Step), CorrelationBefore),
                      maxResults)
        OfTarget(th) == IF th = << >> \/ Len(th[1]) < 5 THEN << >> ELSE Loop(th[1])
    IN OfTarget(MapGet(allHistories, targetMarketId))

\* threshold in thousandths; allHistories is a Map of market id -> series
findCorrelatedMarkets(targetMarketId, allHistories, threshold, maxResults) ==
    LET Push(correlations, marketId, result) ==
            IF Abs(result.correlation) >= threshold /\ result.confidence > 300
            THEN Append(correlations,
                        [targetId |-> marketId, correlation |-> result.correlation,
                         confidence |-> result.confidence, n |-> result.n])
            ELSE correlations
        Loop(targetHistory) ==
            LET Step(correlations, e) ==
                    IF e.key = targetMarketId \/ Len(e.value) < 5 THEN correlations
                    ELSE Push(correlations, e.key,
                              computeCorrelation(targetHistory, e.value))
            IN Slice0(StableSort(FoldSeq(allHistories, << >>, Step), CorrelationBefore),
                      maxResults)
        OfTarget(th) == IF th = << >> \/ Len(th[1]) < 5 THEN << >> ELSE Loop(th[1])
    IN OfTarget(MapGet(allHistories, targetMarketId))

(***************************************************************************)
(* DependencyEdge (lib/types.ts).  The explanation and sharedEventTitle    *)
(* strings are display text and are left out.                              *)
(***************************************************************************)
NoPayload ==
    [correlation |-> << >>, timeWindow |-> << >>, sharedEventId |-> << >>,
     sharedEntities |-> << >>, daysDiff |-> << >>, precedence |-> << >>]

MkEdge(id, sourceId, targetId, type, weight, payload) ==
    [id |-> id, sourceId |-> sourceId, targetId |-> targetId, type |-> type,
     weight |-> weight,
     correlation |-> payload.correlation, timeWindow |-> payload.timeWindow,
     sharedEventId |-> payload.sharedEventId,
     sharedEntities |-> payload.sharedEntities,
     daysDiff |-> payload.daysDiff, precedence |-> payload.precedence]

\* (a, b) => b.weight - a.weight, as "a sorts before b"
WeightBefore(a, b) == QLess(b.weight, a.weight)

SortByWeightDesc(edges) == StableSort(edges, WeightBefore)

StructuralWeight == Q(1, 2)

\* findStructuralDependencies without its "market.id === targetMarketId" skip
findStructuralWithSelf(targetMarketId, events) ==
    LET Holds(ev) == \E i \in 1..Len(ev.markets) : ev.markets[i].id = targetMarketId
        EdgesOf(event, siblings) ==
            [i \in 1..Len(siblings) |->
                MkEdge(<<"", targetMarketId, siblings[i].id>>, targetMarketId,
                       siblings[i].id, "structural", StructuralWeight,
                       [NoPayload EXCEPT !.sharedEventId = <<event.id>>])]
        OfEvent(found) ==
            IF found = << >> THEN << >> ELSE EdgesOf(found[1], found[1].markets)
    IN OfEvent(Find(events, Holds))

findStructuralDependencies(targetMarketId, events) ==
    LET Holds(ev) == \E i \in 1..Len(ev.markets) : ev.markets[i].id = targetMarketId
        Sibling(m) == m.id # targetMarketId
        EdgesOf(event, siblings) ==
            [i \in 1..Len(siblings) |->
                MkEdge(<<"", targetMarketId, siblings[i].id>>, targetMarketId,
                       siblings[i].id, "structural", StructuralWeight,
                       [NoPayload EXCEPT !.sharedEventId = <<event.id>>])]
        OfEvent(found) ==
            IF found = << >> THEN << >>
            ELSE EdgesOf(found[1], SelectSeq(found[1].markets, Sibling))
    IN OfEvent(Find(events, Holds))

buildCorrelationEdges(sourceMarketId, correlations, timeWindow) ==
    [i \in 1..Len(correlations) |->
        MkEdge(<<"", sourceMarketId, correlations[i].targetId>>, sourceMarketId,
               correlations[i].targetId, "correlation",
               Q(Abs(correlations[i].correlation), 1000),
               [NoPayload EXCEPT !.correlation = <<correlations[i].correlation>>,
                                 !.timeWindow = <<timeWindow>>])]

(***************************************************************************)
(* lib/entities.ts: the entity extractor.  A text is a sequence of words;  *)
(* a dictionary entry is the sequence of its words.  The dictionaries are  *)
(* a sample of the curated lists, aliases and case variants included.      *)
(***************************************************************************)
POLITICAL_FIGURES == << <<"Trump">>, <<"Biden">>, <<"Musk">>, <<"Elon", "Musk">> >>

COMPANIES == << <<"Tesla">> >>

CRYPTO_ASSETS == << <<"Bitcoin">>, <<"BTC">>, <<"Pepe">>, <<"PEPE">> >>

COUNTRIES == << <<"US">> >>

ORGANIZATIONS == << <<"Federal", "Reserve">>, <<"Fed">> >>

\* String.prototype.toLowerCase on one word
LowerWord(w) ==
    CASE w = "Trump" -> "trump"
      [] w = "TRUMP" -> "trump"
      [] w = "Biden" -> "biden"
      [] w = "Musk" -> "musk"
      [] w = "Elon" -> "elon"
      [] w = "Tesla" -> "tesla"
      [] w = "Bitcoin" -> "bitcoin"
      [] w = "BTC" -> "btc"
      [] w = "Pepe" -> "pepe"
      [] w = "PEPE" -> "pepe"
      [] w = "US" -> "us"
      [] w = "Federal" -> "federal"
      [] w = "Reserve" -> "reserve"
      [] w = "Fed" -> "fed"
      [] w = "Will" -> "will"
      [] OTHER -> w

toLowerCase(words) == [i \in 1..Len(words) |-> LowerWord(words[i])]

\* flags given to new RegExp: matching on both flags, no 'g' and no 'y'
GlobalFlags == {"g", "i"}

RegExpFlags == {"i"}

\* the word as the pattern compares it: folded to lower case under flag 'i'
Canonical(flags, w) == IF "i" \in flags THEN LowerWord(w) ELSE w

\* RegExp.prototype.test: the search starts at lastIndex only under flag 'g',
\* and only then is lastIndex written (end of the match, or 0 on failure).
\* Positions count whole words: \b...\b matches whole words only.
RegExpTest(pattern, lastIndex, text) ==
    LET global == "g" \in pattern.flags
        Matches(i) ==
            \A j \in 1..Len(pattern.source) :
                Canonical(pattern.flags, text[i + j - 1])
                    = Canonical(pattern.flags, pattern.source[j])
        Result(found) ==
            IF found = {}
            THEN [matched |-> FALSE, lastIndex |-> IF global THEN 0 ELSE lastIndex]
            ELSE [matched |-> TRUE,
                  lastIndex |-> IF global
                                THEN SetMin(found) + Len(pattern.source) - 1
                                ELSE lastIndex]
        From(start) ==
            Result({i \in (start + 1)..(Len(text) - Len(pattern.source) + 1) :
                        Matches(i)})
    IN From(IF global THEN lastIndex ELSE 0)

\* new RegExp(`\\b${escaped}\\b`, 'i').test(text) on a pattern just compiled
PatternTest(pattern, text) ==
    RegExpTest([source |-> pattern, flags |-> RegExpFlags], 0, text).matched

\* Map of normalized -> {pattern, name}
createEntityMatcher(entities) ==
    LET Step(matchers, entity) ==
            MapSet(matchers, toLowerCase(entity),
                   [pattern |-> [source |-> entity, flags |-> RegExpFlags],
                    name |-> entity])
    IN FoldSeq(entities, << >>, Step)

PERSON_MATCHERS == createEntityMatcher(POLITICAL_FIGURES)

COMPANY_MATCHERS == createEntityMatcher(COMPANIES)

CRYPTO_MATCHERS == createEntityMatcher(CRYPTO_ASSETS)

COUNTRY_MATCHERS == createEntityMatcher(COUNTRIES)

ORG_MATCHERS == createEntityMatcher(ORGANIZATIONS)

\* the precompiled patterns, each named by its dictionary and its key
RegExps ==
    {<<"person", PERSON_MATCHERS[i].key>> : i \in 1..Len(PERSON_MATCHERS)}
    \cup {<<"company", COMPANY_MATCHERS[i].key>> : i \in 1..Len(COMPANY_MATCHERS)}
    \cup {<<"crypto", CRYPTO_MATCHERS[i].key>> : i \in 1..Len(CRYPTO_MATCHERS)}
    \cup {<<"country", COUNTRY_MATCHERS[i].key>> : i \in 1..Len(COUNTRY_MATCHERS)}
    \cup {<<"organization", ORG_MATCHERS[i].key>> : i \in 1..Len(ORG_MATCHERS)}

\* the lastIndex of every precompiled pattern once the module is loaded
CompiledLastIndex == [r \in RegExps |-> 0]

\* the matchEntities helper: acc is [entities, seen, lastIndex], lastIndex
\* being the one mutable field of the module's patterns
matchEntities(acc0, matchers, type, text) ==
    LET Tested(acc, m, r) ==
            [entities |-> IF r.matched
                          THEN Append(acc.entities,
                                      [name |-> m.value.name, type |-> type,
                                       normalized |-> m.key])
                          ELSE acc.entities,
             seen |-> IF r.matched THEN acc.seen \cup {m.key} ELSE acc.seen,
             lastIndex |-> [acc.lastIndex EXCEPT ![<<type, m.key>>] = r.lastIndex]]
        Step(acc, m) ==
            IF m.key \in acc.seen THEN acc
            ELSE Tested(acc, m, RegExpTest(m.value.pattern,
                                           acc.lastIndex[<<type, m.key>>], text))
    IN FoldSeq(matchers, acc0, Step)

\* one call of extractEntities on the module's patterns as a call left them:
\* the returned list (entities), and the patterns as this call leaves them
extractEntitiesCall(text, lastIndex) ==
    LET a0 == [entities |-> << >>, seen |-> {}, lastIndex |-> lastIndex]
        a1 == matchEntities(a0, PERSON_MATCHERS, "person", text)
        a2 == matchEntities(a1, COMPANY_MATCHERS, "company", text)
        a3 == matchEntities(a2, CRYPTO_MATCHERS, "crypto", text)
        a4 == matchEntities(a3, COUNTRY_MATCHERS, "country", text)
        a5 == matchEntities(a4, ORG_MATCHERS, "organization", text)
    IN a5

extractEntities(text) == extractEntitiesCall(text, CompiledLastIndex).entities

\* a list kept with its repetitions
KeepDuplicates(s) == s

\* [...new Set(seq)]: first occurrences, in order
DistinctSeq(s) ==
    LET First(i) == \A j \in 1..(i - 1) : s[j] # s[i]
        idx == {i \in 1..Len(s) : First(i)}
        Step(acc, i) == IF i \in idx THEN Append(acc, s[i]) ELSE acc
    IN FoldSeq([i \in 1..Len(s) |-> i], << >>, Step)

\* the entities of a market: its question, then its event's title
MarketEntities(market, events) ==
    LET IsEvent(e) == <<e.id>> = market.eventId
        OfEvent(event) ==
            extractEntities(market.question)
            \o (IF event # << >> THEN extractEntities(event[1].title) ELSE << >>)
    IN OfEvent(Find(events, IsEvent))

\* min(1, k * 0.3)
EntityWeight(k) == Q(Min2(10, 3 * k), 10)

findEntityBasedDependencies(targetMarketId, targetEntities, allMarkets, events, minSharedEntities) ==
    LET NameOf(n) ==
            LET Is(e) == e.normalized = n
            IN Find(targetEntities, Is)[1].name
        Push(edges, market, sharedNormalized) ==
            IF market.id # targetMarketId
               /\ Len(sharedNormalized) >= minSharedEntities
            THEN Append(edges,
                     MkEdge(<<"entity", targetMarketId, market.id>>,
                            targetMarketId, market.id, "entity",
                            EntityWeight(Len(sharedNormalized)),
                            [NoPayload EXCEPT !.sharedEntities =
                                <<[i \in 1..Len(sharedNormalized) |->
                                      NameOf(sharedNormalized[i])]>>]))
            ELSE edges
        Loop(targetNormalized) ==
            LET Shared(me) ==
                    LET In(n) == n \in {me[i].normalized : i \in 1..Len(me)}
                    IN SelectSeq(targetNormalized, In)
                Step(edges, market) ==
                    Push(edges, market, Shared(MarketEntities(market, events)))
            IN SortByWeightDesc(FoldSeq(allMarkets, << >>, Step))
    IN IF Len(targetEntities) = 0 THEN << >>
       ELSE Loop(DistinctSeq([i \in 1..Len(targetEntities) |->
                                 targetEntities[i].normalized]))

(***************************************************************************)
(* lib/temporal.ts: the temporal proximity analyzer.  A date string is     *)
(* [valid, t]: whether Date parses it, and the instant (hours) if so.      *)
(***************************************************************************)
DAY_MS == 24

\* new Date(s).getTime(): << >> is NaN
DateGetTime(s) == IF s.valid THEN <<s.t>> ELSE << >>

\* computeTemporalProximity with a full day still counted as the same day
computeTemporalProximityInclusive(endDateA, endDateB) ==
    IF endDateA = << >> \/ endDateB = << >> THEN << >>
    ELSE LET dateA == DateGetTime(endDateA[1])
             dateB == DateGetTime(endDateB[1])
             diffMs == dateB[1] - dateA[1]
         IN IF dateA = << >> \/ dateB = << >> THEN << >>
            ELSE <<[daysDiff |-> Q(Abs(diffMs), DAY_MS),
                    precedence |-> IF Abs(diffMs) <= DAY_MS THEN "same"
                                   ELSE IF diffMs < 0 THEN "before"
                                   ELSE "after"]>>

\* << >> is null
computeTemporalProximity(endDateA, endDateB) ==
    IF endDateA = << >> \/ endDateB = << >> THEN << >>
    ELSE LET dateA == DateGetTime(endDateA[1])
             dateB == DateGetTime(endDateB[1])
             diffMs == dateB[1] - dateA[1]
         IN IF dateA = << >> \/ dateB = << >> THEN << >>
            ELSE <<[daysDiff |-> Q(Abs(diffMs), DAY_MS),
                    precedence |-> IF Abs(diffMs) < DAY_MS THEN "same"
                                   ELSE IF diffMs < 0 THEN "before"
                                   ELSE "after"]>>

getMarketEndDate(market, events) ==
    LET IsEvent(e) == <<e.id>> = market.eventId
        event == Find(events, IsEvent)
    IN IF market.endDate # << >> THEN market.endDate
       ELSE IF event # << >> THEN event[1].endDate
       ELSE << >>

\* not a number
QNaN == [n |-> 0, d |-> 0]

\* the weight without its division by maxDaysDiff: 1 - daysDiff
TemporalWeightUnscaled(daysDiff, maxDaysDiff) ==
    Q(daysDiff.d - daysDiff.n, daysDiff.d)

\* 1 - (daysDiff / maxDaysDiff), for daysDiff <= maxDaysDiff
TemporalWeight(daysDiff, maxDaysDiff) ==
    IF maxDaysDiff = 0 THEN QNaN
    ELSE Q(maxDaysDiff * daysDiff.d - daysDiff.n, maxDaysDiff * daysDiff.d)

findTemporalDependencies(targetMarketId, targetEndDate, allMarkets, events, maxDaysDiff) ==
    LET Push(edges, market, proximity) ==
            IF market.id = targetMarketId THEN edges
            ELSE IF proximity = << >>
                    \/ proximity[1].daysDiff.n > maxDaysDiff * proximity[1].daysDiff.d
            THEN edges
            ELSE Append(edges,
                     MkEdge(<<"temporal", targetMarketId, market.id>>,
                            targetMarketId, market.id, "temporal",
                            TemporalWeight(proximity[1].daysDiff, maxDaysDiff),
                            [NoPayload EXCEPT
                                !.daysDiff = <<proximity[1].daysDiff>>,
                                !.precedence = <<proximity[1].precedence>>]))
        Step(edges, market) ==
            Push(edges, market,
                 computeTemporalProximity(targetEndDate,
                                          getMarketEndDate(market, events)))
    IN IF targetEndDate = << >> THEN << >>
       ELSE SortByWeightDesc(FoldSeq(allMarkets, << >>, Step))

(***************************************************************************)
(* hooks/useDependencyData.ts: the graph assembler                         *)
(*                                                                         *)
(* A market of the catalog is [id, question, endDate, clobTokenIds,        *)
(* volume]; an event is [id, title, endDate, markets].  The filters are    *)
(* [correlationThreshold (1/1000), timeWindow, dependencyType,            *)
(* showCrossEvent, maxEdges, minSharedEntities, maxDaysDiff].              *)
(***************************************************************************)
NULL == 0

TOP_VOLUME_MARKETS == 20

WithEventId(market, eventId) ==
    [id |-> market.id, eventId |-> <<eventId>>, question |-> market.question,
     endDate |-> market.endDate, clobTokenIds |-> market.clobTokenIds,
     volume |-> market.volume]

allMarketsOf(events) ==
    FlatMap([i \in 1..Len(events) |->
                [j \in 1..Len(events[i].markets) |->
                    WithEventId(events[i].markets[j], events[i].id)]])

FindMarket(allMarkets, id) ==
    LET Is(m) == m.id = id IN Find(allMarkets, Is)

FindEvent(events, optId) ==
    LET Is(e) == <<e.id>> = optId IN Find(events, Is)

\* a lookup that falls back to the first market of the catalog
centerMarketOrFirst(centerMarketId, allMarkets) ==
    IF centerMarketId = NULL THEN << >>
    ELSE IF FindMarket(allMarkets, centerMarketId) # << >>
    THEN FindMarket(allMarkets, centerMarketId)
    ELSE <<allMarkets[1]>>

centerMarketOf(centerMarketId, allMarkets) ==
    IF centerMarketId = NULL THEN << >> ELSE FindMarket(allMarkets, centerMarketId)

centerEventOf(centerMarket, events) ==
    IF centerMarket = << >> THEN << >> ELSE FindEvent(events, centerMarket[1].eventId)

\* targetMarket?.eventId and centerEvent?.id
OptEventId(optMarket) == IF optMarket = << >> THEN << >> ELSE optMarket[1].eventId

OptId(optEvent) == IF optEvent = << >> THEN << >> ELSE <<optEvent[1].id>>

VolumeBefore(a, b) == b.volume - a.volume < 0

\* the markets whose price history is fetched: a Map of id -> clobTokenIds
marketsForHistory(centerMarketId, centerMarket, centerEvent, allMarkets, showCrossEvent) ==
    LET Put(map, m) == MapSet(map, m.id, m.clobTokenIds)
        HasToken(m) == Len(m.clobTokenIds) > 0
        TopVolume(map) ==
            IF showCrossEvent
            THEN FoldSeq(Slice0(StableSort(SelectSeq(allMarkets, HasToken), VolumeBefore),
                                TOP_VOLUME_MARKETS),
                         map, Put)
            ELSE map
        EventMarkets(map) ==
            TopVolume(IF centerEvent # << >>
                      THEN FoldSeq(centerEvent[1].markets, map, Put)
                      ELSE map)
    IN IF centerMarketId = NULL THEN << >>
       ELSE EventMarkets(IF centerMarket # << >>
                         THEN MapSet(<< >>, centerMarketId, centerMarket[1].clobTokenIds)
                         ELSE << >>)

\* Map of clobTokenId -> market id, over the first token of each market
tokenToMarketMapOf(forHistory) ==
    LET Step(map, e) ==
            IF Len(e.value) > 0 THEN MapSet(map, e.value[1], e.key) ELSE map
    IN FoldSeq(forHistory, << >>, Step)

tokenIdsOf(forHistory) ==
    LET Step(ids, e) == IF Len(e.value) > 0 THEN Append(ids, e.value[1]) ELSE ids
    IN FoldSeq(forHistory, << >>, Step)

\* token histories mapped back to market ids
historiesOf(tokenHistories, tokenToMarketMap) ==
    LET Put(map, marketId, history) ==
            IF marketId # << >> /\ Len(history) > 0
            THEN MapSet(map, marketId[1], history)
            ELSE map
        Step(map, e) == Put(map, MapGet(tokenToMarketMap, e.key), e.value)
    IN FoldSeq(tokenHistories, << >>, Step)

\* marketToNode with a volatility of one half for a market without a series
marketToNodeDefaultVolatility(market, event, histories) ==
    LET Volatility(history) ==
            IF history # << >> THEN computeVolatility(history[1]) ELSE Q(1, 2)
    IN [id |-> market.id, marketId |-> market.id, eventId |-> market.eventId[1],
        volume |-> market.volume,
        volatility |-> Volatility(MapGet(histories, market.id))]

\* the category and display fields of a DependencyNode are left out
marketToNode(market, event, histories) ==
    LET Volatility(history) ==
            IF history # << >> THEN computeVolatility(history[1]) ELSE QZero
    IN [id |-> market.id, marketId |-> market.id, eventId |-> market.eventId[1],
        volume |-> market.volume,
        volatility |-> Volatility(MapGet(histories, market.id))]

\* market ids are strings of decimal digits
DecimalText(id) ==
    IF id < 10 THEN <<id>> ELSE <<id \div 10, id % 10>>

\* a < b on strings: code units are compared from the left, and a proper
\* prefix is the smaller
RECURSIVE StringLess(_, _)
StringLess(a, b) ==
    IF b = << >> THEN FALSE
    ELSE IF a = << >> THEN TRUE
    ELSE IF Head(a) # Head(b) THEN Head(a) < Head(b)
    ELSE StringLess(Tail(a), Tail(b))

\* a key that keeps the order of its arguments
OrderedPairKey(sourceId, targetId) == <<sourceId, targetId>>

\* `${sourceId}-${targetId}` or `${targetId}-${sourceId}`
getEdgePairKey(sourceId, targetId) ==
    IF StringLess(DecimalText(sourceId), DecimalText(targetId))
    THEN <<sourceId, targetId>> ELSE <<targetId, sourceId>>

\* `${type}-${pairKey}`
EdgeId(type, pairKey) == <<type, pairKey[1], pairKey[2]>>

WithId(edge, type) ==
    [edge EXCEPT !.id = EdgeId(type, getEdgePairKey(edge.sourceId, edge.targetId))]

\* "add the target node if not already present"
AddTargetNode(nodeMap, targetId, targetMarket, events, histories) ==
    IF ~MapHas(nodeMap, targetId) /\ targetMarket # << >>
    THEN MapSet(nodeMap, targetId,
                marketToNode(targetMarket[1],
                             FindEvent(events, targetMarket[1].eventId), histories))
    ELSE nodeMap

\* a selector that lets every producer run whatever the filter says
TypeAlwaysEnabled(c, type) == TRUE

\* c is the memoised context of one render: [centerMarketId, centerMarket,
\* centerEvent, events, allMarkets, histories, filters]
TypeEnabled(c, type) ==
    c.filters.dependencyType = "all" \/ c.filters.dependencyType = type

\* x || d
OrDefault(x, d) == IF x = 0 THEN d ELSE x

\* the four producers, as the assembler calls them
structuralCandidates(c) ==
    IF TypeEnabled(c, "structural")
    THEN findStructuralDependencies(c.centerMarketId, c.events)
    ELSE << >>

correlationCandidates(c) ==
    IF TypeEnabled(c, "correlation") /\ Len(c.histories) > 1
    THEN buildCorrelationEdges(
             c.centerMarketId,
             findCorrelatedMarkets(c.centerMarketId, c.histories,
                                   c.filters.correlationThreshold, c.filters.maxEdges),
             c.filters.timeWindow)
    ELSE << >>

centerEntitiesOf(c) ==
    extractEntities(c.centerMarket[1].question)
    \o (IF c.centerEvent # << >> THEN extractEntities(c.centerEvent[1].title) ELSE << >>)

entityCandidates(c) ==
    LET Of(centerEntities) ==
            IF Len(centerEntities) > 0
            THEN findEntityBasedDependencies(c.centerMarketId, centerEntities,
                                             c.allMarkets, c.events,
                                             OrDefault(c.filters.minSharedEntities, 1))
            ELSE << >>
    IN IF TypeEnabled(c, "entity") THEN Of(centerEntitiesOf(c)) ELSE << >>

centerEndDateOf(c) ==
    IF c.centerMarket[1].endDate # << >> THEN c.centerMarket[1].endDate
    ELSE IF c.centerEvent # << >> THEN c.centerEvent[1].endDate
    ELSE << >>

temporalCandidates(c) ==
    LET Of(centerEndDate) ==
            IF centerEndDate # << >>
            THEN findTemporalDependencies(c.centerMarketId, centerEndDate, c.allMarkets,
                                          c.events, OrDefault(c.filters.maxDaysDiff, 14))
            ELSE << >>
    IN IF TypeEnabled(c, "temporal") THEN Of(centerEndDateOf(c)) ELSE << >>

\* the cross-event checks of the four loops
StructuralDropped(c, edge) ==
    ~c.filters.showCrossEvent /\ edge.sharedEventId # OptId(c.centerEvent)

CorrelationDropped(c, edge) ==
    ~c.filters.showCrossEvent
    /\ OptEventId(FindMarket(c.allMarkets, edge.targetId)) # OptId(c.centerEvent)

\* the entity loop without a cross-event check
EntityNeverDropped(c, edge) == FALSE

EntityDropped(c, edge) ==
    ~c.filters.showCrossEvent
    /\ OptEventId(FindMarket(c.allMarkets, edge.targetId)) = OptId(c.centerEvent)

TemporalDropped(c, edge) ==
    ~c.filters.showCrossEvent
    /\ OptEventId(FindMarket(c.allMarkets, edge.targetId)) = OptId(c.centerEvent)

\* keying the edge map by the producer's edge id instead of the pair key
PairKeyById(edge) == edge.id

PairKeyOf(edge) == getEdgePairKey(edge.sourceId, edge.targetId)

\* one iteration of each loop; acc is [edgeMap, nodeMap]
StructuralStep(c, acc, edge) ==
    IF StructuralDropped(c, edge) THEN acc
    ELSE [edgeMap |-> IF ~MapHas(acc.edgeMap, PairKeyOf(edge))
                      THEN MapSet(acc.edgeMap, PairKeyOf(edge), WithId(edge, "structural"))
                      ELSE acc.edgeMap,
          nodeMap |-> AddTargetNode(acc.nodeMap, edge.targetId,
                                    FindMarket(c.allMarkets, edge.targetId),
                                    c.events, c.histories)]

\* a correlation loop that inserts only when the pair has no edge yet
CorrelationStepIfAbsent(c, acc, edge) ==
    IF CorrelationDropped(c, edge) THEN acc
    ELSE IF ~MapHas(acc.edgeMap, PairKeyOf(edge))
    THEN [edgeMap |-> MapSet(acc.edgeMap, PairKeyOf(edge), WithId(edge, "correlation")),
          nodeMap |-> AddTargetNode(acc.nodeMap, edge.targetId,
                                    FindMarket(c.allMarkets, edge.targetId),
                                    c.events, c.histories)]
    ELSE acc

CorrelationStep(c, acc, edge) ==
    IF CorrelationDropped(c, edge) THEN acc
    ELSE [edgeMap |-> MapSet(acc.edgeMap, PairKeyOf(edge), WithId(edge, "correlation")),
          nodeMap |-> AddTargetNode(acc.nodeMap, edge.targetId,
                                    FindMarket(c.allMarkets, edge.targetId),
                                    c.events, c.histories)]

\* an entity loop that overwrites like the correlation loop
EntityStepOverwrite(c, acc, edge) ==
    IF EntityDropped(c, edge) THEN acc
    ELSE [edgeMap |-> MapSet(acc.edgeMap, PairKeyOf(edge), WithId(edge, "entity")),
          nodeMap |-> AddTargetNode(acc.nodeMap, edge.targetId,
                                    FindMarket(c.allMarkets, edge.targetId),
                                    c.events, c.histories)]

EntityStep(c, acc, edge) ==
    IF EntityDropped(c, edge) THEN acc
    ELSE IF ~MapHas(acc.edgeMap, PairKeyOf(edge))
    THEN [edgeMap |-> MapSet(acc.edgeMap, PairKeyOf(edge), WithId(edge, "entity")),
          nodeMap |-> AddTargetNode(acc.nodeMap, edge.targetId,
                                    FindMarket(c.allMarkets, edge.targetId),
                                    c.events, c.histories)]
    ELSE acc

TemporalStep(c, acc, edge) ==
    IF TemporalDropped(c, edge) THEN acc
    ELSE IF ~MapHas(acc.edgeMap, PairKeyOf(edge))
    THEN [edgeMap |-> MapSet(acc.edgeMap, PairKeyOf(edge), WithId(edge, "temporal")),
          nodeMap |-> AddTargetNode(acc.nodeMap, edge.targetId,
                                    FindMarket(c.allMarkets, edge.targetId),
                                    c.events, c.histories)]
    ELSE acc

\* truncation without the sort by weight
limitEdgesUnsorted(edgeMap, maxEdges) == Slice0(MapValues(edgeMap), maxEdges)

\* "convert edge map to array and limit total edges"
limitEdges(edgeMap, maxEdges) == Slice0(SortByWeightDesc(MapValues(edgeMap)), maxEdges)

\* every node of the node map, connected or not
allNodes(nodeMap, limitedEdges, centerMarketId) == MapValues(nodeMap)

\* "only include nodes that are connected"
connectedNodes(nodeMap, limitedEdges, centerMarketId) ==
    LET connectedNodeIds ==
            {centerMarketId}
            \cup {limitedEdges[i].sourceId : i \in 1..Len(limitedEdges)}
            \cup {limitedEdges[i].targetId : i \in 1..Len(limitedEdges)}
        Connected(n) == n.id \in connectedNodeIds
    IN SelectSeq(MapValues(nodeMap), Connected)

CountType(edges, type) == Cardinality({i \in 1..Len(edges) : edges[i].type = type})

\* << >> is the null graph
statsOf(graph) ==
    IF graph = << >>
    THEN [totalNodes |-> 0, totalEdges |-> 0, structuralEdges |-> 0,
          correlationEdges |-> 0, entityEdges |-> 0, temporalEdges |-> 0]
    ELSE [totalNodes |-> Len(graph[1].nodes), totalEdges |-> Len(graph[1].edges),
          structuralEdges |-> CountType(graph[1].edges, "structural"),
          correlationEdges |-> CountType(graph[1].edges, "correlation"),
          entityEdges |-> CountType(graph[1].edges, "entity"),
          temporalEdges |-> CountType(graph[1].edges, "temporal")]

ContextOf(centerMarketId, filters, events, tokenHistories) ==
    LET Context(allMarkets, centerMarket, centerEvent, forHistory) ==
            [centerMarketId |-> centerMarketId, centerMarket |-> centerMarket,
             centerEvent |-> centerEvent, events |-> events, allMarkets |-> allMarkets,
             tokenIds |-> tokenIdsOf(forHistory),
             histories |-> historiesOf(tokenHistories, tokenToMarketMapOf(forHistory)),
             filters |-> filters]
        OfEvent(allMarkets, centerMarket, centerEvent) ==
            Context(allMarkets, centerMarket, centerEvent,
                    marketsForHistory(centerMarketId, centerMarket, centerEvent,
                                      allMarkets, filters.showCrossEvent))
        OfMarket(allMarkets, centerMarket) ==
            OfEvent(allMarkets, centerMarket, centerEventOf(centerMarket, events))
        OfMarkets(allMarkets) ==
            OfMarket(allMarkets, centerMarketOf(centerMarketId, allMarkets))
    IN OfMarkets(allMarketsOf(events))

EmptyRender(c) ==
    [tokenIds |-> c.tokenIds, histories |-> c.histories,
     structuralEdges |-> << >>, correlationEdges |-> << >>,
     entityEdges |-> << >>, temporalEdges |-> << >>,
     edgeMap |-> << >>, nodeMap |-> << >>,
     graph |-> << >>, stats |-> statsOf(<< >>)]

\* the four loops over the producers' candidates: [edgeMap, nodeMap]
mergeEdges(c, structuralEdges, correlationEdges, entityEdges, temporalEdges) ==
    LET SStep(acc, e) == StructuralStep(c, acc, e)
        CStep(acc, e) == CorrelationStep(c, acc, e)
        EStep(acc, e) == EntityStep(c, acc, e)
        TStep(acc, e) == TemporalStep(c, acc, e)
        a0 == [edgeMap |-> << >>,
               nodeMap |-> MapSet(<< >>, c.centerMarketId,
                                  marketToNode(c.centerMarket[1], c.centerEvent,
                                               c.histories))]
    IN FoldSeq(temporalEdges,
               FoldSeq(entityEdges,
                       FoldSeq(correlationEdges,
                               FoldSeq(structuralEdges, a0, SStep),
                               CStep),
                       EStep),
               TStep)

\* the returned graph
graphOf(c, nodeMap, limitedEdges) ==
    <<[nodes |-> connectedNodes(nodeMap, limitedEdges, c.centerMarketId),
       edges |-> limitedEdges,
       centerNodeId |-> c.centerMarketId]>>

\* the graph memo on the memoised values c of a render: the producers'
\* candidate lists, the merged maps, the graph and the stats
graphMemo(c) ==
    LET Out(structuralEdges, correlationEdges, entityEdges, temporalEdges, merged, graph) ==
            [tokenIds |-> c.tokenIds, histories |-> c.histories,
             structuralEdges |-> structuralEdges,
             correlationEdges |-> correlationEdges,
             entityEdges |-> entityEdges, temporalEdges |-> temporalEdges,
             edgeMap |-> merged.edgeMap, nodeMap |-> merged.nodeMap,
             graph |-> graph, stats |-> statsOf(graph)]
        Merged(structuralEdges, correlationEdges, entityEdges, temporalEdges, merged) ==
            Out(structuralEdges, correlationEdges, entityEdges, temporalEdges, merged,
                graphOf(c, merged.nodeMap, limitEdges(merged.edgeMap, c.filters.maxEdges)))
        Produced(structuralEdges, correlationEdges, entityEdges, temporalEdges) ==
            Merged(structuralEdges, correlationEdges, entityEdges, temporalEdges,
                   mergeEdges(c, structuralEdges, correlationEdges, entityEdges,
                              temporalEdges))
    IN IF c.centerMarketId = NULL \/ c.centerMarket = << >> THEN EmptyRender(c)
       ELSE Produced(structuralCandidates(c), correlationCandidates(c),
                     entityCandidates(c), temporalCandidates(c))

\* one render of the hook
useDependencyData(centerMarketId, filters, events, tokenHistories) ==
    graphMemo(ContextOf(centerMarketId, filters, events, tokenHistories))

(***************************************************************************)
(* The catalogs and price servers the model runs over                      *)
(***************************************************************************)
Undefined == << >>

Date(t) == <<[valid |-> TRUE, t |-> t]>>

InvalidDate == <<[valid |-> FALSE, t |-> 0]>>

Market(id, question, endDate, clobTokenIds, volume) ==
    [id |-> id, question |-> question, endDate |-> endDate,
     clobTokenIds |-> clobTokenIds, volume |-> volume]

Event(id, title, endDate, markets) ==
    [id |-> id, title |-> title, endDate |-> endDate, markets |-> markets]

Series(prices) == [i \in 1..Len(prices) |-> [timestamp |-> i - 1, price |-> prices[i]]]

\* the same, sampled from one hour later on
LateSeries(prices) == [i \in 1..Len(prices) |-> [timestamp |-> i, price |-> prices[i]]]

\* one event of three markets and one of a single market; every market has
\* tokens; market 3 has an unparsable date, markets 1 and 4 take their event's
Catalog1 ==
    << Event(1, <<"US", "election">>, Date(240),
             << Market(1, <<"Will", "Trump", "win">>, Undefined, <<11, 21>>, 100),
                Market(2, <<"Will", "Biden", "win">>, Date(252), <<12, 22>>, 300),
                Market(3, <<"Will", "the", "Fed", "cut">>, InvalidDate, <<13, 23>>, 200) >>),
       Event(2, <<"Fed", "chair">>, Date(288),
             << Market(4, <<"Will", "TRUMP", "fire", "the", "US", "Fed", "chair">>,
                       Undefined, <<14, 24>>, 400) >>) >>

\* two events of two markets; market 2 has neither tokens nor a date, the
\* dates of markets 3 and 4 are 0 and 14 days from market 1's
Catalog2 ==
    << Event(1, <<"Bitcoin", "price">>, Undefined,
             << Market(1, <<"BTC", "above", "100k">>, Date(240), <<11, 21>>, 100),
                Market(2, <<"Pepe", "rally">>, Undefined, << >>, 300) >>),
       Event(2, <<"crypto", "week">>, Date(576),
             << Market(3, <<"Will", "Bitcoin", "and", "BTC", "pass">>, Date(240),
                       <<13, 23>>, 200),
                Market(4, <<"Elon", "Musk", "tweets">>, Undefined, <<14, 24>>, 400) >>) >>

\* what the price server holds for each token (a Map of token -> series)
Upstream1 ==
    << [key |-> 11, value |-> Series(<<48, 46, 44, 45, 47>>)],
       [key |-> 12, value |-> Series(<<53, 50, 51, 53, 53>>)],
       [key |-> 13, value |-> Series(<<48, 50, 50, 51, 53>>)],
       [key |-> 14, value |-> Series(<<46, 49, 50, 51, 51>>)] >>

\* token 13 is sampled one hour after token 11, so that four samples of
\* either fall into their overlap; token 14 has too few samples
Upstream2 ==
    << [key |-> 11, value |-> Series(<<48, 46, 44, 45, 47>>)],
       [key |-> 13, value |-> LateSeries(<<48, 50, 50, 51, 53>>)],
       [key |-> 14, value |-> Series(<<46, 49, 50, 51>>)] >>

\* bound of the maxEdges values the model tries
MaxEdgesBound == 2

\* an id that no market of the catalogs has
UnknownMarketId == 9

MarketIds == {NULL, 1, 2, 3, 4, UnknownMarketId}

DependencyTypes == {"all", "structural", "correlation", "entity", "temporal"}

TimeWindows == {"24h", "7d"}

\* correlationThreshold is "0-1, default 0.6": the least value and the default
CorrelationThresholds == {0, 600}

MaxEdgesValues == 0..MaxEdgesBound

\* a catalog, its price server, and the [minSharedEntities, maxDaysDiff] the
\* caller passes
Scenarios ==
    { [events |-> Catalog1, upstream |-> Upstream1, preset |-> <<1, 14>>],
      [events |-> Catalog1, upstream |-> Upstream1, preset |-> <<2, 2>>],
      [events |-> Catalog2, upstream |-> Upstream2, preset |-> <<0, 0>>],
      [events |-> Catalog2, upstream |-> Upstream2, preset |-> <<0 - 1, 1>>] }

(***************************************************************************)
(* State                                                                   *)
(***************************************************************************)
VARIABLES
    events,             \* the catalog (useEventData)
    upstream,           \* the price server
    selectedMarketId,   \* page.tsx: the center market id, or NULL
    filters,            \* page.tsx: dependencyFilters
    tokenHistories,     \* usePriceHistory: the data SWR holds (kept across keys)
    pc,                 \* "render": a state update is committed and the hook
                        \* is about to run; "idle": the hook has returned
    histories,          \* the hook's memoised Map of market id -> series
    structuralEdges,    \* the four producers' candidates of the render
    correlationEdges,
    entityEdges,
    temporalEdges,
    edgeMap,            \* the merged edge map before truncation
    nodeMap,            \* the node map before the connected filter
    graph,              \* the returned graph, << >> when null
    stats,              \* the returned stats
    \* a caller of lib/correlation.ts
    seriesA,            \* the two price series handed to the correlator
    seriesB,
    aligned,            \* alignTimeSeries(seriesA, seriesB), << >> until called
    correlationAB,      \* computeCorrelation(seriesA, seriesB), << >> until called
    correlationBA,      \* computeCorrelation(seriesB, seriesA)
    correlationAA,      \* computeCorrelation(seriesA, seriesA)
    volatilityA,        \* computeVolatility(seriesA)
    \* a caller of lib/entities.ts
    text,               \* the text whose entities are extracted twice
    otherText,          \* a text extracted by another call
    lastIndex,          \* the lastIndex of each precompiled pattern
    firstEntities,      \* extractEntities(text), << >> until called
    otherEntities,      \* extractEntities(otherText)
    secondEntities,     \* extractEntities(text), called again
    \* a caller of lib/temporal.ts
    endDateA,           \* the end date of the center market
    endDateB,           \* the end dates of two other markets
    endDateC,
    proximityAB,        \* computeTemporalProximity(endDateA, endDateB), boxed
    proximityBA,        \* computeTemporalProximity(endDateB, endDateA), boxed
    temporalResult,     \* [maxDaysDiff, edges] of findTemporalDependencies
    \* one call of fetchMultiplePriceHistories (lib/api.ts)
    tokenIds,           \* the argument
    fetchPc,            \* "idle": not called; "awaiting": at the await of
                        \* Promise.allSettled; "resolved": returned
    batchStart,         \* the loop variable i
    requests,           \* per token: [status, ok, history] of its request
    results,            \* the Map being filled
    \* the edge limit of the hook on one candidate set in two insertion orders
    edgeMapA,           \* one edge map
    edgeMapB,           \* the same entries, inserted in another order
    maxEdgesArg,        \* filters.maxEdges
    retainedA,          \* the limited edges of edgeMapA, boxed; << >> until computed
    retainedB,          \* the limited edges of edgeMapB, boxed
    \* the correlator on two orderings of the same samples
    historyGiven,       \* the caller's array of samples
    historyReordered,   \* the same samples in another order
    partner,            \* the series they are correlated with
    volatilityGiven,    \* << >> or <<computeVolatility(historyGiven)>>
    volatilityReordered,\* the same for historyReordered
    correlationGiven,   \* << >> or <<computeCorrelation(historyGiven, partner)>>
    correlationReordered,\* the same for historyReordered
    \* findEntityBasedDependencies on its own
    catalogArg,         \* the events it is given
    targetIdArg,        \* its targetMarketId
    targetEntitiesArg,  \* its targetEntities
    minSharedArg,       \* options.minSharedEntities
    dependencies        \* the returned edges, boxed; << >> until it returned

inputs == <<events, upstream, selectedMarketId, filters, tokenHistories>>

outputs == <<histories, structuralEdges, correlationEdges, entityEdges,
             temporalEdges, edgeMap, nodeMap, graph, stats>>

hookVars == <<events, upstream, selectedMarketId, filters, tokenHistories, pc,
              histories, structuralEdges, correlationEdges, entityEdges,
              temporalEdges, edgeMap, nodeMap, graph, stats>>

correlatorVars == <<seriesA, seriesB, aligned, correlationAB, correlationBA,
                    correlationAA, volatilityA>>

extractorVars == <<text, otherText, lastIndex, firstEntities, otherEntities,
                   secondEntities>>

temporalVars == <<endDateA, endDateB, endDateC, proximityAB, proximityBA,
                  temporalResult>>

fetchVars == <<tokenIds, fetchPc, batchStart, requests, results>>

limitVars == <<edgeMapA, edgeMapB, maxEdgesArg, retainedA, retainedB>>

permutationVars == <<historyGiven, historyReordered, partner, volatilityGiven, volatilityReordered, correlationGiven, correlationReordered>>

entityDepsVars == <<catalogArg, targetIdArg, targetEntitiesArg, minSharedArg, dependencies>>

\* what the hook's steps leave alone
libraryVars == <<correlatorVars, extractorVars, temporalVars, fetchVars, limitVars, permutationVars, entityDepsVars>>

\* what the steps of each library's caller leave alone
exceptCorrelator == <<hookVars, extractorVars, temporalVars, fetchVars, limitVars, permutationVars, entityDepsVars>>

exceptExtractor == <<hookVars, correlatorVars, temporalVars, fetchVars, limitVars, permutationVars, entityDepsVars>>

exceptTemporal == <<hookVars, correlatorVars, extractorVars, fetchVars, limitVars, permutationVars, entityDepsVars>>

exceptFetch == <<hookVars, correlatorVars, extractorVars, temporalVars, limitVars, permutationVars, entityDepsVars>>

exceptLimit == <<hookVars, correlatorVars, extractorVars, temporalVars, fetchVars, permutationVars, entityDepsVars>>

exceptPermutation == <<hookVars, correlatorVars, extractorVars, temporalVars, fetchVars, limitVars, entityDepsVars>>

exceptEntityDeps == <<hookVars, correlatorVars, extractorVars, temporalVars, fetchVars, limitVars, permutationVars>>

vars == <<hookVars, libraryVars>>

DefaultFilters(preset) ==
    [correlationThreshold |-> 600, timeWindow |-> "24h", dependencyType |-> "all",
     showCrossEvent |-> TRUE, maxEdges |-> MaxEdgesBound,
     minSharedEntities |-> preset[1], maxDaysDiff |-> preset[2]]

\* nothing is memoised while a render is pending
Pending ==
    /\ histories = << >>
    /\ structuralEdges = << >>
    /\ correlationEdges = << >>
    /\ entityEdges = << >>
    /\ temporalEdges = << >>
    /\ edgeMap = << >>
    /\ nodeMap = << >>
    /\ graph = << >>
    /\ stats = statsOf(<< >>)

\* no call of the correlator is under way
CorrelatorIdle ==
    /\ seriesA = << >>
    /\ seriesB = << >>
    /\ aligned = << >>
    /\ correlationAB = << >>
    /\ correlationBA = << >>
    /\ correlationAA = << >>
    /\ volatilityA = << >>

\* no call of the extractor is under way; its patterns are as compiled
ExtractorIdle ==
    /\ text = << >>
    /\ otherText = << >>
    /\ lastIndex = CompiledLastIndex
    /\ firstEntities = << >>
    /\ otherEntities = << >>
    /\ secondEntities = << >>

\* no call of the temporal analyzer is under way
TemporalIdle ==
    /\ endDateA = << >>
    /\ endDateB = << >>
    /\ endDateC = << >>
    /\ proximityAB = << >>
    /\ proximityBA = << >>
    /\ temporalResult = << >>

\* fetchMultiplePriceHistories is not called
FetchIdle ==
    /\ tokenIds = << >>
    /\ fetchPc = "idle"
    /\ batchStart = 0
    /\ requests = << >>
    /\ results = << >>

\* no edge map is being limited
LimitIdle ==
    /\ edgeMapA = << >>
    /\ edgeMapB = << >>
    /\ maxEdgesArg = 0
    /\ retainedA = << >>
    /\ retainedB = << >>

\* no ordering is being compared
PermutationIdle ==
    /\ historyGiven = << >>
    /\ historyReordered = << >>
    /\ partner = << >>
    /\ volatilityGiven = << >>
    /\ volatilityReordered = << >>
    /\ correlationGiven = << >>
    /\ correlationReordered = << >>

\* no entity dependencies are being searched
EntityDepsIdle ==
    /\ catalogArg = << >>
    /\ targetIdArg = 0
    /\ targetEntitiesArg = << >>
    /\ minSharedArg = 0
    /\ dependencies = << >>

LibrariesIdle ==
    /\ EntityDepsIdle
    /\ PermutationIdle
    /\ LimitIdle
    /\ CorrelatorIdle
    /\ ExtractorIdle
    /\ TemporalIdle
    /\ FetchIdle

Init ==
    /\ \E sc \in Scenarios :
          /\ events = sc.events
          /\ upstream = sc.upstream
          /\ selectedMarketId = NULL
          /\ filters = DefaultFilters(sc.preset)
          /\ tokenHistories = << >>
          /\ pc = "render"
          /\ Pending
    /\ LibrariesIdle

\* a state update schedules a render, which recomputes every memoised value
Schedule ==
    /\ pc = "idle"
    /\ pc' = "render"
    /\ histories' = << >>
    /\ structuralEdges' = << >>
    /\ correlationEdges' = << >>
    /\ entityEdges' = << >>
    /\ temporalEdges' = << >>
    /\ edgeMap' = << >>
    /\ nodeMap' = << >>
    /\ graph' = << >>
    /\ stats' = statsOf(<< >>)
    /\ UNCHANGED libraryVars

\* the hook runs: useDependencyData(centerMarketId, filters, events)
RenderHook ==
    /\ pc = "render"
    /\ pc' = "idle"
    /\ LET Commit(r) ==
               /\ histories' = r.histories
               /\ structuralEdges' = r.structuralEdges
               /\ correlationEdges' = r.correlationEdges
               /\ entityEdges' = r.entityEdges
               /\ temporalEdges' = r.temporalEdges
               /\ edgeMap' = r.edgeMap
               /\ nodeMap' = r.nodeMap
               /\ graph' = r.graph
               /\ stats' = r.stats
       IN Commit(useDependencyData(selectedMarketId, filters, events, tokenHistories))
    /\ UNCHANGED <<inputs, libraryVars>>

\* setSelectedMarketId
SelectMarket(id) ==
    /\ Schedule
    /\ selectedMarketId' = id
    /\ UNCHANGED <<events, upstream, filters, tokenHistories>>

\* setDependencyFilters
SetFilters(newFilters) ==
    /\ Schedule
    /\ filters' = newFilters
    /\ UNCHANGED <<events, upstream, selectedMarketId, tokenHistories>>

\* the onFiltersChange handlers of the controls
SetTimeWindow(value) == SetFilters([filters EXCEPT !.timeWindow = value])

SetDependencyType(value) == SetFilters([filters EXCEPT !.dependencyType = value])

SetCorrelationThreshold(value) ==
    SetFilters([filters EXCEPT !.correlationThreshold = value])

SetShowCrossEvent(checked) == SetFilters([filters EXCEPT !.showCrossEvent = checked])

SetMaxEdges(value) == SetFilters([filters EXCEPT !.maxEdges = value])

\* the token ids the current render asks usePriceHistory for
CurrentTokenIds ==
    ContextOf(selectedMarketId, filters, events, tokenHistories).tokenIds

\* fetchMultiplePriceHistories: an entry per requested token, the empty series
\* for a token the server has nothing for
FetchResult(marketIds) ==
    LET OrEmpty(history) == IF history = << >> THEN << >> ELSE history[1]
    IN [i \in 1..Len(marketIds) |->
           [key |-> marketIds[i], value |-> OrEmpty(MapGet(upstream, marketIds[i]))]]

\* SWR delivers the data of the current key
HistoriesLoaded ==
    /\ Schedule
    /\ LET Deliver(marketIds) ==
               /\ marketIds # << >>
               /\ tokenHistories' = FetchResult(marketIds)
       IN Deliver(CurrentTokenIds)
    /\ UNCHANGED <<events, upstream, selectedMarketId, filters>>

Next ==
    \/ RenderHook
    \/ \E id \in MarketIds : SelectMarket(id)
    \/ \E value \in TimeWindows : SetTimeWindow(value)
    \/ \E value \in DependencyTypes : SetDependencyType(value)
    \/ \E value \in CorrelationThresholds : SetCorrelationThreshold(value)
    \/ \E checked \in BOOLEAN : SetShowCrossEvent(checked)
    \/ \E value \in MaxEdgesValues : SetMaxEdges(value)
    \/ HistoriesLoaded

Spec == Init /\ [][Next]_vars

(***************************************************************************)
(* The correlator on its own: a caller hands two series to the functions   *)
(* of lib/correlation.ts.                                                  *)
(***************************************************************************)
\* the hook is not mounted
HookIdle ==
    /\ events = << >>
    /\ upstream = << >>
    /\ selectedMarketId = NULL
    /\ filters = DefaultFilters(<<1, 14>>)
    /\ tokenHistories = << >>
    /\ pc = "idle"
    /\ Pending

\* a series sampled at the instants of grid, with the first prices of a shape
Sampled(grid, prices) ==
    [i \in 1..Len(grid) |-> [timestamp |-> grid[i], price |-> prices[i]]]

\* sampling instants: hourly, sparse, late, shifted, touching the hourly
\* grid's end, out of order, with a repeated instant, too short
TimeGrids ==
    { <<0, 1, 2, 3, 4, 5>>, <<0, 5>>, <<0, 2, 3, 5>>, <<0, 1, 2, 3, 4>>,
      <<6, 7, 8, 9, 10, 11>>, <<2, 3, 4, 5, 6, 7>>, <<5, 6, 7, 8, 9, 10>>,
      <<3, 0, 5, 1, 4, 2>>, <<0, 1, 1, 2, 3, 4>>, <<3>>, << >> }

\* price shapes in cents: flat, falling then rising, and two others
PriceShapes ==
    { <<50, 50, 50, 50, 50, 50>>, <<48, 46, 44, 45, 47, 49>>,
      <<53, 50, 51, 53, 53, 52>>, <<46, 49, 50, 51, 51, 50>> }

\* a series that is not flat and whose returns are all 0.5
ConstantReturn == Sampled(<<0, 1, 2, 3, 4>>, <<16, 24, 36, 54, 81>>)

SeriesInputs ==
    {Sampled(grid, prices) : grid \in TimeGrids, prices \in PriceShapes}
    \cup {ConstantReturn}

InitCorrelator ==
    /\ HookIdle
    /\ EntityDepsIdle
    /\ PermutationIdle
    /\ LimitIdle
    /\ ExtractorIdle
    /\ TemporalIdle
    /\ FetchIdle
    /\ seriesA \in SeriesInputs
    /\ seriesB \in SeriesInputs
    /\ aligned = << >>
    /\ correlationAB = << >>
    /\ correlationBA = << >>
    /\ correlationAA = << >>
    /\ volatilityA = << >>

CallAlignTimeSeries ==
    /\ aligned = << >>
    /\ aligned' = <<alignTimeSeries(seriesA, seriesB)>>
    /\ UNCHANGED <<exceptCorrelator, seriesA, seriesB, correlationAB, correlationBA,
                   correlationAA, volatilityA>>

CallComputeCorrelation ==
    /\ correlationAB = << >>
    /\ correlationAB' = <<computeCorrelation(seriesA, seriesB)>>
    /\ UNCHANGED <<exceptCorrelator, seriesA, seriesB, aligned, correlationBA,
                   correlationAA, volatilityA>>

\* the same call with the arguments exchanged
CallComputeCorrelationSwapped ==
    /\ correlationBA = << >>
    /\ correlationBA' = <<computeCorrelation(seriesB, seriesA)>>
    /\ UNCHANGED <<exceptCorrelator, seriesA, seriesB, aligned, correlationAB,
                   correlationAA, volatilityA>>

\* a series correlated with itself
CallComputeCorrelationSelf ==
    /\ correlationAA = << >>
    /\ correlationAA' = <<computeCorrelation(seriesA, seriesA)>>
    /\ UNCHANGED <<exceptCorrelator, seriesA, seriesB, aligned, correlationAB,
                   correlationBA, volatilityA>>

CallComputeVolatility ==
    /\ volatilityA = << >>
    /\ volatilityA' = <<computeVolatility(seriesA)>>
    /\ UNCHANGED <<exceptCorrelator, seriesA, seriesB, aligned, correlationAB,
                   correlationBA, correlationAA>>

NextCorrelator ==
    \/ CallAlignTimeSeries
    \/ CallComputeCorrelation
    \/ CallComputeCorrelationSwapped
    \/ CallComputeCorrelationSelf
    \/ CallComputeVolatility

SpecCorrelator == InitCorrelator /\ [][NextCorrelator]_vars

(***************************************************************************)
(* A caller of lib/entities.ts: it extracts the entities of a text, then   *)
(* of the same text again, while another call extracts those of another    *)
(* text.  All calls share the module's precompiled patterns.               *)
(***************************************************************************)
MaxTextLen == 3

Vocabulary == {"Trump", "TRUMP", "Fed", "Elon", "Musk", "and", "the"}

Texts == UNION {[1..n -> Vocabulary] : n \in 0..MaxTextLen}

OtherTexts == { <<"TRUMP">>, <<"Fed", "and", "Trump">>, <<"the">>, << >> }

InitExtractor ==
    /\ HookIdle
    /\ EntityDepsIdle
    /\ PermutationIdle
    /\ LimitIdle
    /\ CorrelatorIdle
    /\ TemporalIdle
    /\ FetchIdle
    /\ text \in Texts
    /\ otherText \in OtherTexts
    /\ lastIndex = CompiledLastIndex
    /\ firstEntities = << >>
    /\ otherEntities = << >>
    /\ secondEntities = << >>

CallExtractEntities ==
    /\ firstEntities = << >>
    /\ LET Return(r) ==
              /\ firstEntities' = <<r.entities>>
              /\ lastIndex' = r.lastIndex
       IN Return(extractEntitiesCall(text, lastIndex))
    /\ UNCHANGED <<exceptExtractor, text, otherText, otherEntities, secondEntities>>

CallExtractEntitiesOther ==
    /\ otherEntities = << >>
    /\ secondEntities = << >>
    /\ LET Return(r) ==
              /\ otherEntities' = <<r.entities>>
              /\ lastIndex' = r.lastIndex
       IN Return(extractEntitiesCall(otherText, lastIndex))
    /\ UNCHANGED <<exceptExtractor, text, otherText, firstEntities, secondEntities>>

CallExtractEntitiesAgain ==
    /\ firstEntities # << >>
    /\ secondEntities = << >>
    /\ LET Return(r) ==
              /\ secondEntities' = <<r.entities>>
              /\ lastIndex' = r.lastIndex
       IN Return(extractEntitiesCall(text, lastIndex))
    /\ UNCHANGED <<exceptExtractor, text, otherText, firstEntities, otherEntities>>

NextExtractor ==
    \/ CallExtractEntities
    \/ CallExtractEntitiesOther
    \/ CallExtractEntitiesAgain

SpecExtractor == InitExtractor /\ [][NextExtractor]_vars

(***************************************************************************)
(* A caller of lib/temporal.ts: it compares the end dates of two markets   *)
(* in both orders, and asks for the temporal edges of a center market      *)
(* (id 1, end date A) among two others (ids 2 and 3, end dates B and C).   *)
(***************************************************************************)
MaxDays == 3

\* instants (hours): whole days, and one hour, half a day and 23 hours later
Instants == {DAY_MS * k + o : k \in 0..MaxDays, o \in {0, 1, 12, 23}}

\* endDate?: string, missing, unparsable or parsable
EndDates == {Undefined, InvalidDate} \cup {Date(t) : t \in Instants}

TemporalMarkets ==
    << WithEventId(Market(1, << >>, endDateA, << >>, 0), 1),
       WithEventId(Market(2, << >>, endDateB, << >>, 0), 1),
       WithEventId(Market(3, << >>, endDateC, << >>, 0), 1) >>

InitTemporal ==
    /\ HookIdle
    /\ EntityDepsIdle
    /\ PermutationIdle
    /\ LimitIdle
    /\ CorrelatorIdle
    /\ ExtractorIdle
    /\ FetchIdle
    /\ endDateA \in EndDates
    /\ endDateB \in EndDates
    /\ endDateC \in EndDates
    /\ proximityAB = << >>
    /\ proximityBA = << >>
    /\ temporalResult = << >>

CallComputeTemporalProximity ==
    /\ proximityAB = << >>
    /\ proximityAB' = <<computeTemporalProximity(endDateA, endDateB)>>
    /\ UNCHANGED <<exceptTemporal, endDateA, endDateB, endDateC, proximityBA,
                   temporalResult>>

\* the same call with the arguments exchanged
CallComputeTemporalProximitySwapped ==
    /\ proximityBA = << >>
    /\ proximityBA' = <<computeTemporalProximity(endDateB, endDateA)>>
    /\ UNCHANGED <<exceptTemporal, endDateA, endDateB, endDateC, proximityAB,
                   temporalResult>>

CallFindTemporalDependencies ==
    /\ temporalResult = << >>
    /\ \E m \in 1..MaxDays :
          temporalResult' =
              <<[maxDaysDiff |-> m,
                 edges |-> findTemporalDependencies(1, endDateA, TemporalMarkets,
                                                    << >>, m)]>>
    /\ UNCHANGED <<exceptTemporal, endDateA, endDateB, endDateC, proximityAB,
                   proximityBA>>

NextTemporal ==
    \/ CallComputeTemporalProximity
    \/ CallComputeTemporalProximitySwapped
    \/ CallFindTemporalDependencies

SpecTemporal == InitTemporal /\ [][NextTemporal]_vars

(***************************************************************************)
(* lib/api.ts: one call of fetchMultiplePriceHistories.  A request is the  *)
(* promise of fetchPriceHistory for one token: "fetching" while fetch is   *)
(* awaited, "reading" while response.json() is awaited, then "fulfilled"   *)
(* (fetchPriceHistory catches every failure and returns []).  The code     *)
(* between two awaits of fetchMultiplePriceHistories runs in one step.     *)
(***************************************************************************)
MaxTokens == 7

DoubledBatchSize == 5 + 5

BATCH_SIZE == 5

\* the points the server holds for a token (t in seconds)
RawHistory(tokenId) ==
    << [t |-> tokenId, p |-> 40 + tokenId], [t |-> tokenId + 60, p |-> 41 + tokenId] >>

\* what response.json() may give: the array, an object holding it, or a failure
Bodies(tokenId) ==
    { [kind |-> "array", history |-> RawHistory(tokenId)],
      [kind |-> "object", history |-> RawHistory(tokenId)],
      [kind |-> "invalid", history |-> << >>] }

\* how a fetch may end: a response that is ok or not, or a rejection
Responses == {"ok", "notOk", "networkError"}

\* history.map(point => ({timestamp: point.t * 1000, price: point.p}))
ToPoints(history) ==
    [i \in 1..Len(history) |->
        [timestamp |-> history[i].t * 1000, price |-> history[i].p]]

Unissued(tokenId) ==
    [tokenId |-> tokenId, status |-> "unissued", ok |-> FALSE, history |-> << >>]

\* fetchPriceHistory returned value for the request
Fulfilled(r, ok, value) == [r EXCEPT !.status = "fulfilled", !.ok = ok, !.history = value]

\* the result of Promise.allSettled that records nothing
RecordNothing(map, settled) == map

\* for (const result of settled) if (result.status === 'fulfilled') results.set(...)
RecordSettled(map, settled) ==
    LET Step(m, result) ==
            IF result.status = "fulfilled"
            THEN MapSet(m, result.tokenId, result.history)
            ELSE m
    IN FoldSeq(settled, map, Step)

\* tokenIds.slice(i, i + BATCH_SIZE), as indices
BatchIndices(i) == (i + 1)..Min2(i + BATCH_SIZE, Len(tokenIds))

\* the loop from its condition on: the next batch is mapped to its requests,
\* each calling fetch, and awaited; or the Map is returned
LoopFrom(i, pending) ==
    /\ batchStart' = i
    /\ IF i < Len(tokenIds)
       THEN /\ requests' = [k \in 1..Len(pending) |->
                                IF k \in BatchIndices(i)
                                THEN [pending[k] EXCEPT !.status = "fetching"]
                                ELSE pending[k]]
            /\ fetchPc' = "awaiting"
       ELSE /\ requests' = pending
            /\ fetchPc' = "resolved"

InitFetch ==
    /\ HookIdle
    /\ EntityDepsIdle
    /\ PermutationIdle
    /\ LimitIdle
    /\ CorrelatorIdle
    /\ ExtractorIdle
    /\ TemporalIdle
    /\ \E n \in 0..MaxTokens : tokenIds = [k \in 1..n |-> 10 + k]
    /\ fetchPc = "idle"
    /\ batchStart = 0
    /\ requests = [k \in 1..Len(tokenIds) |-> Unissued(tokenIds[k])]
    /\ results = << >>

CallFetchMultiplePriceHistories ==
    /\ fetchPc = "idle"
    /\ results' = << >>
    /\ LoopFrom(0, requests)
    /\ UNCHANGED <<exceptFetch, tokenIds>>

\* the fetch of a request settles
Respond(k, response) ==
    /\ k \in DOMAIN requests
    /\ requests[k].status = "fetching"
    /\ requests' = [requests EXCEPT ![k] =
                        IF response = "ok" THEN [@ EXCEPT !.status = "reading"]
                        ELSE Fulfilled(@, FALSE, << >>)]
    /\ UNCHANGED <<exceptFetch, tokenIds, fetchPc, batchStart, results>>

\* response.json() of a request settles
ReadBody(k, data) ==
    /\ k \in DOMAIN requests
    /\ requests[k].status = "reading"
    /\ requests' = [requests EXCEPT ![k] =
                        IF data.kind = "invalid" THEN Fulfilled(@, FALSE, << >>)
                        ELSE Fulfilled(@, TRUE, ToPoints(data.history))]
    /\ UNCHANGED <<exceptFetch, tokenIds, fetchPc, batchStart, results>>

\* Promise.allSettled resolves: the batch is recorded and the loop goes on
BatchSettled ==
    /\ fetchPc = "awaiting"
    /\ \A k \in BatchIndices(batchStart) : requests[k].status = "fulfilled"
    /\ results' = RecordSettled(results,
                                SubSeq(requests, batchStart + 1,
                                       Min2(batchStart + BATCH_SIZE, Len(tokenIds))))
    /\ LoopFrom(batchStart + BATCH_SIZE, requests)
    /\ UNCHANGED <<exceptFetch, tokenIds>>

NextFetch ==
    \/ CallFetchMultiplePriceHistories
    \/ \E k \in 1..Len(tokenIds), response \in Responses : Respond(k, response)
    \/ \E k \in 1..Len(tokenIds) : \E data \in Bodies(tokenIds[k]) : ReadBody(k, data)
    \/ BatchSettled

SpecFetch == InitFetch /\ [][NextFetch]_vars

\* the call is made, every request settles (the fetch, then the body), and
\* the event loop runs the continuation of a settled batch
FetchFairness ==
    /\ WF_vars(CallFetchMultiplePriceHistories)
    /\ \A k \in 1..MaxTokens :
          /\ WF_vars(\E response \in Responses : Respond(k, response))
          /\ WF_vars(\E data \in Bodies(10 + k) : ReadBody(k, data))
    /\ WF_vars(BatchSettled)

SpecFetchFair == InitFetch /\ [][NextFetch]_vars /\ FetchFairness

(***************************************************************************)
(* The limit of useDependencyData on its own: the same deduplicated edges  *)
(* of a center (id 1), stored in the edge map in two insertion orders, are *)
(* sorted by weight and truncated to maxEdges.                             *)
(***************************************************************************)
MaxCandidates == 3

\* what the loops may have stored for the pair of the center and market t:
\* a structural edge, or an entity edge of t - 1 shared entities
StoredEdges(t) ==
    { WithId(MkEdge(<<"", 1, t>>, 1, t, "structural", StructuralWeight, NoPayload),
             "structural"),
      WithId(MkEdge(<<"", 1, t>>, 1, t, "entity", EntityWeight(t - 1), NoPayload),
             "entity") }

\* at most one edge per pair
CandidateSets ==
    {S \in SUBSET (UNION {StoredEdges(t) : t \in 2..(MaxCandidates + 1)}) :
        \A e1, e2 \in S : e1.targetId = e2.targetId => e1 = e2}

\* the insertion orders of a set of edges
Orderings(S) ==
    {s \in [1..Cardinality(S) -> S] : \A i, j \in 1..Cardinality(S) : s[i] = s[j] => i = j}

\* edgeMap.set(pairKey, edge) for each edge in turn
EdgeMapOf(edges) ==
    [i \in 1..Len(edges) |-> [key |-> PairKeyOf(edges[i]), value |-> edges[i]]]

InitLimit ==
    /\ HookIdle
    /\ EntityDepsIdle
    /\ PermutationIdle
    /\ CorrelatorIdle
    /\ ExtractorIdle
    /\ TemporalIdle
    /\ FetchIdle
    /\ \E S \in CandidateSets :
          \E a, b \in Orderings(S) :
              /\ edgeMapA = EdgeMapOf(a)
              /\ edgeMapB = EdgeMapOf(b)
    /\ maxEdgesArg \in 0..MaxCandidates
    /\ retainedA = << >>
    /\ retainedB = << >>

CallLimitEdges ==
    /\ retainedA = << >>
    /\ retainedA' = <<limitEdges(edgeMapA, maxEdgesArg)>>
    /\ UNCHANGED <<exceptLimit, edgeMapA, edgeMapB, maxEdgesArg, retainedB>>

\* the same on the other insertion order
CallLimitEdgesReordered ==
    /\ retainedB = << >>
    /\ retainedB' = <<limitEdges(edgeMapB, maxEdgesArg)>>
    /\ UNCHANGED <<exceptLimit, edgeMapA, edgeMapB, maxEdgesArg, retainedA>>

NextLimit ==
    \/ CallLimitEdges
    \/ CallLimitEdgesReordered

SpecLimit == InitLimit /\ [][NextLimit]_vars

(***************************************************************************)
(* The graph memo of useDependencyData on its own: it is run on the        *)
(* memoised values of a render with any histories map in place of the one  *)
(* the hook derives from the delivered token histories.                    *)
(***************************************************************************)
\* the series a histories map may hold for a market id
SeriesFor(id) ==
    IF id = UnknownMarketId THEN Series(<<52, 49, 50, 52, 53>>)
    ELSE Upstream1[id].value

\* the Maps of market id -> series over the catalog's ids and an unknown one
HistoryMaps ==
    {SelectSeq([i \in 1..5 |-> [key |-> <<1, 2, 3, 4, UnknownMarketId>>[i],
                                value |-> SeriesFor(<<1, 2, 3, 4, UnknownMarketId>>[i])]],
               LAMBDA entry : entry.key \in S) :
        S \in SUBSET {1, 2, 3, 4, UnknownMarketId}}

InitAssembler ==
    /\ LibrariesIdle
    /\ events \in {Catalog1, Catalog2}
    /\ upstream = << >>
    /\ selectedMarketId \in MarketIds
    /\ \E type \in {"all", "correlation"}, threshold \in CorrelationThresholds,
          crossEvent \in BOOLEAN, limit \in MaxEdgesValues :
          filters = [DefaultFilters(<<1, 14>>) EXCEPT
                         !.dependencyType = type, !.correlationThreshold = threshold,
                         !.showCrossEvent = crossEvent, !.maxEdges = limit]
    /\ tokenHistories = << >>
    /\ pc = "render"
    /\ histories \in HistoryMaps
    /\ structuralEdges = << >>
    /\ correlationEdges = << >>
    /\ entityEdges = << >>
    /\ temporalEdges = << >>
    /\ edgeMap = << >>
    /\ nodeMap = << >>
    /\ graph = << >>
    /\ stats = statsOf(<< >>)

AssembleGraph ==
    /\ pc = "render"
    /\ pc' = "idle"
    /\ LET Commit(r) ==
               /\ structuralEdges' = r.structuralEdges
               /\ correlationEdges' = r.correlationEdges
               /\ entityEdges' = r.entityEdges
               /\ temporalEdges' = r.temporalEdges
               /\ edgeMap' = r.edgeMap
               /\ nodeMap' = r.nodeMap
               /\ graph' = r.graph
               /\ stats' = r.stats
       IN Commit(graphMemo([ContextOf(selectedMarketId, filters, events, << >>)
                                EXCEPT !.histories = histories]))
    /\ UNCHANGED <<inputs, histories, libraryVars>>

NextAssembler == AssembleGraph

SpecAssembler == InitAssembler /\ [][NextAssembler]_vars

(***************************************************************************)
(* The correlator on two orderings of the same samples: a caller holds a   *)
(* series whose samples came in any order and hands it to                  *)
(* computeVolatility and to computeCorrelation.                            *)
(***************************************************************************)
\* the orders in which five samples can come
Orders == {f \in [1..5 -> 1..5] : \A i, j \in 1..5 : f[i] = f[j] => i = j}

\* five samples with distinct timestamps, in ascending order
AscendingSamples ==
    {Sampled(<<0, 1, 2, 3, 4>>, prices) : prices \in PriceShapes} \cup {ConstantReturn}

InitPermutation ==
    /\ HookIdle
    /\ EntityDepsIdle
    /\ CorrelatorIdle
    /\ ExtractorIdle
    /\ TemporalIdle
    /\ FetchIdle
    /\ LimitIdle
    /\ \E samples \in AscendingSamples, order \in Orders :
          /\ historyGiven = samples
          /\ historyReordered = [i \in 1..5 |-> samples[order[i]]]
    /\ partner \in {Sampled(<<0, 1, 2, 3, 4, 5>>, <<48, 46, 44, 45, 47, 49>>),
                    Sampled(<<5, 3, 1, 0, 2, 4>>, <<53, 50, 51, 53, 53, 52>>)}
    /\ volatilityGiven = << >>
    /\ volatilityReordered = << >>
    /\ correlationGiven = << >>
    /\ correlationReordered = << >>

\* history.map(...) builds a new array; history is left as it is
CallComputeVolatilityGiven ==
    /\ volatilityGiven = << >>
    /\ volatilityGiven' = <<computeVolatility(historyGiven)>>
    /\ UNCHANGED <<exceptPermutation, historyGiven, historyReordered, partner,
                   volatilityReordered, correlationGiven, correlationReordered>>

CallComputeVolatilityReordered ==
    /\ volatilityReordered = << >>
    /\ volatilityReordered' = <<computeVolatility(historyReordered)>>
    /\ UNCHANGED <<exceptPermutation, historyGiven, historyReordered, partner,
                   volatilityGiven, correlationGiven, correlationReordered>>

\* alignTimeSeries sorts copies, [...seriesA] and [...seriesB]
CallComputeCorrelationGiven ==
    /\ correlationGiven = << >>
    /\ correlationGiven' = <<computeCorrelation(historyGiven, partner)>>
    /\ UNCHANGED <<exceptPermutation, historyGiven, historyReordered, partner,
                   volatilityGiven, volatilityReordered, correlationReordered>>

CallComputeCorrelationReordered ==
    /\ correlationReordered = << >>
    /\ correlationReordered' = <<computeCorrelation(historyReordered, partner)>>
    /\ UNCHANGED <<exceptPermutation, historyGiven, historyReordered, partner,
                   volatilityGiven, volatilityReordered, correlationGiven>>

NextPermutation ==
    \/ CallComputeVolatilityGiven
    \/ CallComputeVolatilityReordered
    \/ CallComputeCorrelationGiven
    \/ CallComputeCorrelationReordered

SpecPermutation == InitPermutation /\ [][NextPermutation]_vars

(***************************************************************************)
(* findEntityBasedDependencies on its own: a caller hands it a target, the *)
(* target's entities, a catalog and a minimum of shared entities.          *)
(***************************************************************************)
\* the entity lists a caller may hold for a target: none, those of its
\* question, those of its question and its event's title
TargetEntitiesFor(targetMarket, catalog) ==
    IF targetMarket = << >> THEN {<< >>}
    ELSE {<< >>, extractEntities(targetMarket[1].question),
          MarketEntities(targetMarket[1], catalog)}

InitEntityDeps ==
    /\ HookIdle
    /\ CorrelatorIdle
    /\ ExtractorIdle
    /\ TemporalIdle
    /\ FetchIdle
    /\ LimitIdle
    /\ PermutationIdle
    /\ catalogArg \in {Catalog1, Catalog2}
    /\ targetIdArg \in {1, 2, 3, 4, UnknownMarketId}
    /\ targetEntitiesArg \in
           TargetEntitiesFor(FindMarket(allMarketsOf(catalogArg), targetIdArg), catalogArg)
    /\ minSharedArg \in {0 - 1, 0, 1, 2, 3}
    /\ dependencies = << >>

CallFindEntityBasedDependencies ==
    /\ dependencies = << >>
    /\ dependencies' = <<findEntityBasedDependencies(targetIdArg, targetEntitiesArg,
                                                     allMarketsOf(catalogArg), catalogArg,
                                                     minSharedArg)>>
    /\ UNCHANGED <<exceptEntityDeps, catalogArg, targetIdArg, targetEntitiesArg,
                   minSharedArg>>

NextEntityDeps == CallFindEntityBasedDependencies

SpecEntityDeps == InitEntityDeps /\ [][NextEntityDeps]_vars

(***************************************************************************)
(* Properties of the returned graph.  They are read in the states where    *)
(* the hook has returned (pc = "idle").                                    *)
(***************************************************************************)
Idle == pc = "idle"

\* the hook has returned a graph
Returned == pc = "idle" /\ graph # << >>

Edges == graph[1].edges

Nodes == graph[1].nodes

Targets(edges) == {edges[i].targetId : i \in 1..Len(edges)}

CatalogIds ==
    UNION {{events[i].markets[j].id : j \in 1..Len(events[i].markets)} :
              i \in 1..Len(events)}

\* the event that holds market id, by its position in the catalog
EventOfMarket(id) ==
    CHOOSE i \in 1..Len(events) :
        \E j \in 1..Len(events[i].markets) : events[i].markets[j].id = id

SameEvent(t) == EventOfMarket(t) = EventOfMarket(selectedMarketId)

Siblings == {t \in CatalogIds \ {selectedMarketId} : SameEvent(t)}

\* the positions in edges of the edges between the center and t
EdgesFor(edges, t) ==
    {i \in 1..Len(edges) :
        {edges[i].sourceId, edges[i].targetId} = {selectedMarketId, t}}

TypesFor(edges, t) == {edges[i].type : i \in EdgesFor(edges, t)}

\* a producer proposed t and the cross-event check of its loop let it pass
StructuralKept(t) ==
    t \in Targets(structuralEdges) /\ (filters.showCrossEvent \/ SameEvent(t))

CorrelationKept(t) ==
    t \in Targets(correlationEdges) /\ (filters.showCrossEvent \/ SameEvent(t))

EntityKept(t) ==
    t \in Targets(entityEdges) /\ (filters.showCrossEvent \/ ~SameEvent(t))

TemporalKept(t) ==
    t \in Targets(temporalEdges) /\ (filters.showCrossEvent \/ ~SameEvent(t))

CandidateTargets ==
    {t \in CatalogIds :
        StructuralKept(t) \/ CorrelationKept(t) \/ EntityKept(t) \/ TemporalKept(t)}

\* C1: in every returned graph, every node other than the center is the
\* sourceId or the targetId of an edge of the truncated edge list.
C1_NodesAreConnected ==
    Returned =>
        \A i \in 1..Len(Nodes) :
            Nodes[i].id # graph[1].centerNodeId =>
                \E j \in 1..Len(Edges) :
                    Edges[j].sourceId = Nodes[i].id \/ Edges[j].targetId = Nodes[i].id

\* a graph with a neighbour left in while the node map held more nodes
C1_Witness == Returned /\ Len(Nodes) > 1 /\ Len(nodeMap) > Len(Nodes)

\* C2: a returned graph has at most one edge per unordered pair of markets,
\* whichever producers proposed the pair.
C2_OneEdgePerPair ==
    Returned =>
        \A i, j \in 1..Len(Edges) :
            i # j => {Edges[i].sourceId, Edges[i].targetId}
                        # {Edges[j].sourceId, Edges[j].targetId}

\* an edge of the graph whose pair two producers proposed
C2_Witness ==
    /\ Returned
    /\ \E i \in 1..Len(Edges) :
          LET t == Edges[i].targetId
          IN \/ StructuralKept(t) /\ CorrelationKept(t)
             \/ StructuralKept(t) /\ EntityKept(t)
             \/ EntityKept(t) /\ TemporalKept(t)

\* |correlation| >= correlationThreshold with confidence > 0.3, over the
\* histories the hook holds
CorrelationSignal(t) ==
    /\ MapHas(histories, selectedMarketId)
    /\ MapHas(histories, t)
    /\ LET r == computeCorrelation(MapGet(histories, selectedMarketId)[1],
                                   MapGet(histories, t)[1])
       IN Abs(r.correlation) >= filters.correlationThreshold /\ r.confidence > 300

C4_EntityTemporalNeverReplace ==
    Returned =>
        \A t \in CatalogIds \ {selectedMarketId} :
            /\ (StructuralKept(t) \/ CorrelationKept(t)) =>
                  /\ EdgesFor(MapValues(edgeMap), t) # {}
                  /\ TypesFor(MapValues(edgeMap), t)
                        \subseteq {"structural", "correlation"}
                  /\ TypesFor(Edges, t) \subseteq {"structural", "correlation"}
            /\ (/\ ~StructuralKept(t)
                /\ ~CorrelationKept(t)
                /\ EntityKept(t)
                /\ TemporalKept(t)) =>
                  /\ TypesFor(MapValues(edgeMap), t) = {"entity"}
                  /\ TypesFor(Edges, t) \subseteq {"entity"}

\* a graph with an edge of a pair that an entity or temporal candidate came
\* second for, and an entity edge of a pair that also had a temporal candidate
C4_Witness ==
    /\ Returned
    /\ \E t \in CatalogIds :
          /\ StructuralKept(t) \/ CorrelationKept(t)
          /\ EntityKept(t) \/ TemporalKept(t)
          /\ EdgesFor(Edges, t) # {}
    /\ \E t \in CatalogIds :
          /\ ~StructuralKept(t) /\ ~CorrelationKept(t)
          /\ EntityKept(t) /\ TemporalKept(t)
          /\ TypesFor(Edges, t) = {"entity"}

\* C5: the returned edge list has min(maxEdges, number of deduplicated
\* candidates) elements, is ordered by weight descending, no dropped
\* candidate outweighs a retained edge, and a node whose edges were all
\* truncated is not in the node set.
C5_Truncation ==
    Returned =>
        /\ Len(Edges) = Min2(filters.maxEdges, Cardinality(CandidateTargets))
        /\ \A i, j \in 1..Len(Edges) :
              i < j => ~QLess(Edges[i].weight, Edges[j].weight)
        /\ \A i \in 1..Len(Edges) : \E k \in 1..Len(edgeMap) : edgeMap[k].value = Edges[i]
        /\ \A k \in 1..Len(edgeMap) :
              (\A i \in 1..Len(Edges) : Edges[i] # edgeMap[k].value) =>
                  \A i \in 1..Len(Edges) :
                      ~QLess(Edges[i].weight, edgeMap[k].value.weight)
        /\ \A k \in 1..Len(nodeMap) :
              (nodeMap[k].key # selectedMarketId
               /\ EdgesFor(Edges, nodeMap[k].key) = {}) =>
                  \A i \in 1..Len(Nodes) : Nodes[i].id # nodeMap[k].key

\* more candidates than maxEdges, a lighter one dropped and its node with it
C5_Witness ==
    /\ Returned
    /\ filters.maxEdges >= 1
    /\ Len(edgeMap) > filters.maxEdges
    /\ \E k \in 1..Len(edgeMap) :
          /\ \A i \in 1..Len(Edges) : Edges[i] # edgeMap[k].value
          /\ QLess(edgeMap[k].value.weight, Edges[Len(Edges)].weight)
          /\ MapHas(nodeMap, edgeMap[k].value.targetId)
          /\ \A i \in 1..Len(Nodes) : Nodes[i].id # edgeMap[k].value.targetId

C7_SameEventOnly ==
    (Returned /\ ~filters.showCrossEvent) =>
        \A i \in 1..Len(Edges) :
            /\ Edges[i].sourceId = selectedMarketId
            /\ SameEvent(Edges[i].targetId)

\* C8: a null center id, or one that no market of the catalog has, gives the
\* null graph and stats that are all 0.
C8_UnknownCenter ==
    (Idle /\ selectedMarketId \notin CatalogIds) =>
        /\ graph = << >>
        /\ stats = [totalNodes |-> 0, totalEdges |-> 0, structuralEdges |-> 0,
                    correlationEdges |-> 0, entityEdges |-> 0, temporalEdges |-> 0]

\* the hook has returned for an id the catalog does not hold, with price
\* histories in hand
C8_Witness ==
    /\ Idle
    /\ selectedMarketId = UnknownMarketId
    /\ tokenHistories # << >>
    /\ graph = << >>

\* C9: with dependencyType 'structural' and a center with k other markets in
\* its event, k <= maxEdges, the graph has exactly k edges, one to each of
\* them and none to another event's market, each structural with weight 0.5;
\* for a market in no event the structural producer yields no edge.
C9_StructuralOnly ==
    Idle =>
        /\ findStructuralDependencies(UnknownMarketId, events) = << >>
        /\ (/\ graph # << >>
            /\ filters.dependencyType = "structural"
            /\ Cardinality(Siblings) <= filters.maxEdges) =>
              /\ Len(Edges) = Cardinality(Siblings)
              /\ Targets(Edges) = Siblings
              /\ \A i \in 1..Len(Edges) :
                    /\ Edges[i].sourceId = selectedMarketId
                    /\ Edges[i].type = "structural"
                    /\ Edges[i].weight = [n |-> 1, d |-> 2]

\* a center with two siblings and both structural edges in the graph
C9_Witness ==
    /\ Returned
    /\ filters.dependencyType = "structural"
    /\ Cardinality(Siblings) = 2
    /\ Len(Edges) = 2
    /\ CatalogIds \ (Siblings \cup {selectedMarketId}) # {}

\* C10: every edge of every returned graph has a finite weight w with
\* 0 <= w <= 1.
C10_WeightInUnitInterval ==
    Returned =>
        \A i \in 1..Len(Edges) :
            /\ Edges[i].weight.d > 0
            /\ 0 <= Edges[i].weight.n
            /\ Edges[i].weight.n <= Edges[i].weight.d

\* correlationThreshold 0 with a correlation edge below 0.6, next to an edge
\* of another type
C10_Witness ==
    /\ Returned
    /\ filters.correlationThreshold = 0
    /\ \E i \in 1..Len(Edges) :
          Edges[i].type = "correlation" /\ QLess(Edges[i].weight, Q(3, 5))
    /\ \E i \in 1..Len(Edges) : Edges[i].type \in {"entity", "temporal"}

\* the memoised context of the render the hook has returned from
RenderContext == ContextOf(selectedMarketId, filters, events, tokenHistories)

SingleTypes == {"structural", "correlation", "entity", "temporal"}

\* C11: when dependencyType is a single type T, only T's producer is invoked:
\* the other three candidate lists are empty and every edge of the returned
\* graph has type T; when it is 'all', each of the four candidate lists is
\* what its producer returns for the center.
C11_TypeSelector ==
    Returned =>
        /\ filters.dependencyType \in SingleTypes =>
              /\ \A i \in 1..Len(Edges) : Edges[i].type = filters.dependencyType
              /\ \A i \in 1..Len(edgeMap) :
                    edgeMap[i].value.type = filters.dependencyType
              /\ filters.dependencyType # "structural" => structuralEdges = << >>
              /\ filters.dependencyType # "correlation" => correlationEdges = << >>
              /\ filters.dependencyType # "entity" => entityEdges = << >>
              /\ filters.dependencyType # "temporal" => temporalEdges = << >>
        /\ filters.dependencyType = "all" =>
              /\ structuralEdges = findStructuralDependencies(selectedMarketId, events)
              /\ Len(histories) > 1 =>
                    correlationEdges =
                        buildCorrelationEdges(
                            selectedMarketId,
                            findCorrelatedMarkets(selectedMarketId, histories,
                                                  filters.correlationThreshold,
                                                  filters.maxEdges),
                            filters.timeWindow)
              /\ Len(centerEntitiesOf(RenderContext)) > 0 =>
                    entityEdges =
                        findEntityBasedDependencies(
                            selectedMarketId, centerEntitiesOf(RenderContext),
                            allMarketsOf(events), events,
                            OrDefault(filters.minSharedEntities, 1))
              /\ centerEndDateOf(RenderContext) # << >> =>
                    temporalEdges =
                        findTemporalDependencies(
                            selectedMarketId, centerEndDateOf(RenderContext),
                            allMarketsOf(events), events,
                            OrDefault(filters.maxDaysDiff, 14))

\* entity alone is selected and yields edges, for a center that the
\* structural and temporal producers have candidates for
C11_Witness ==
    /\ Returned
    /\ filters.dependencyType = "entity"
    /\ Len(Edges) > 0
    /\ findStructuralDependencies(selectedMarketId, events) # << >>
    /\ centerEndDateOf(RenderContext) # << >>
    /\ findTemporalDependencies(selectedMarketId, centerEndDateOf(RenderContext),
                                allMarketsOf(events), events,
                                OrDefault(filters.maxDaysDiff, 14)) # << >>

(***************************************************************************)
(* Properties of the correlator (SpecCorrelator)                           *)
(***************************************************************************)
SetMax(S) == CHOOSE x \in S : \A y \in S : y <= x

Timestamps(s) == {s[i].timestamp : i \in 1..Len(s)}

\* max of the starts >= min of the ends
NoOverlap(a, b) ==
    /\ Len(a) > 0
    /\ Len(b) > 0
    /\ Max2(SetMin(Timestamps(a)), SetMin(Timestamps(b)))
          >= Min2(SetMax(Timestamps(a)), SetMax(Timestamps(b)))

AllEqual(s) == \A i, j \in 1..Len(s) : s[i] = s[j]

DistinctTimestamps(s) == Cardinality(Timestamps(s)) = Len(s)

\* the prices of a series of distinct timestamps, in time order
PricesByTime(s) ==
    [i \in 1..Len(s) |->
        s[CHOOSE k \in 1..Len(s) :
            Cardinality({j \in 1..Len(s) : s[j].timestamp < s[k].timestamp}) = i - 1]
        .price]

\* the samples of a that fall inside the time range of b
SamplesInside(a, b) ==
    {i \in 1..Len(a) :
        /\ a[i].timestamp >= SetMin(Timestamps(b))
        /\ a[i].timestamp <= SetMax(Timestamps(b))}

\* C12: computeCorrelation(A, B) and computeCorrelation(B, A) return the
\* same correlation, confidence and n.
C12_Symmetric ==
    (correlationAB # << >> /\ correlationBA # << >>) => correlationAB = correlationBA

\* largest return count the confidence formula is read at
MaxReturnCount == 60

ResultsSeen == Range(correlationAB) \cup Range(correlationBA) \cup Range(correlationAA)

Degenerate(a, b) == Len(a) < 2 \/ Len(b) < 2 \/ NoOverlap(a, b)

\* C14: when either series has fewer than 2 points or the two do not overlap
\* in time, alignment yields two empty arrays and computeCorrelation returns
\* correlation 0 and confidence 0; when the returns of either aligned side
\* are all equal the correlation is 0; computeVolatility is 0 for fewer than
\* 5 points.
C14_DegenerateInputs ==
    /\ (aligned # << >> /\ Degenerate(seriesA, seriesB)) =>
          aligned[1] = [alignedA |-> << >>, alignedB |-> << >>]
    /\ (correlationAB # << >> /\ Degenerate(seriesA, seriesB)) =>
          correlationAB[1] = [correlation |-> 0, confidence |-> 0, n |-> 0]
    /\ (correlationBA # << >> /\ Degenerate(seriesA, seriesB)) =>
          correlationBA[1] = [correlation |-> 0, confidence |-> 0, n |-> 0]
    /\ (aligned # << >> /\ correlationAB # << >>
         /\ (\/ AllEqual(computeReturns(aligned[1].alignedA))
             \/ AllEqual(computeReturns(aligned[1].alignedB)))) =>
          correlationAB[1].correlation = 0
    /\ (volatilityA # << >> /\ Len(seriesA) < 5) => volatilityA[1] = [n |-> 0, d |-> 1]

\* two series of six points that share one instant only, aligned and
\* correlated
C14_Witness ==
    /\ Len(seriesA) = 6 /\ Len(seriesB) = 6
    /\ Timestamps(seriesA) \cap Timestamps(seriesB) # {}
    /\ NoOverlap(seriesA, seriesB)
    /\ aligned # << >>
    /\ correlationAB # << >>
    /\ correlationBA # << >>

\* C15: a series of at least 5 points at distinct timestamps whose returns
\* are not all equal aligns with itself to its own prices, in time order, on
\* both sides, and its correlation with itself is 1.
C15_SelfCorrelation ==
    (/\ correlationAA # << >>
     /\ Len(seriesA) >= 5
     /\ DistinctTimestamps(seriesA)
     /\ ~AllEqual(computeReturns(PricesByTime(seriesA)))) =>
        /\ alignTimeSeries(seriesA, seriesA)
              = [alignedA |-> PricesByTime(seriesA), alignedB |-> PricesByTime(seriesA)]
        /\ correlationAA[1].correlation = 1000
        /\ correlationAA[1].n = Len(seriesA) - 1

\* a series given out of time order, correlated with itself
C15_Witness ==
    /\ correlationAA # << >>
    /\ correlationAA[1].correlation = 1000
    /\ Len(seriesA) = 6
    /\ DistinctTimestamps(seriesA)
    /\ \E i \in 1..(Len(seriesA) - 1) : seriesA[i].timestamp > seriesA[i + 1].timestamp

(***************************************************************************)
(* Properties of the entity extractor (SpecExtractor).                     *)
(***************************************************************************)
Dictionaries ==
    {POLITICAL_FIGURES, COMPANIES, CRYPTO_ASSETS, COUNTRIES, ORGANIZATIONS}

\* the entry occurs in the words as whole words, whatever the case
Occurs(entry, words) ==
    \E i \in 1..(Len(words) - Len(entry) + 1) :
        \A j \in 1..Len(entry) : LowerWord(words[i + j - 1]) = LowerWord(entry[j])

MatchesNothing(words) ==
    \A d \in Dictionaries : \A i \in 1..Len(d) : ~Occurs(d[i], words)

HasWord(words, w) == \E i \in 1..Len(words) : words[i] = w

DistinctKeys(entities) ==
    \A i, j \in 1..Len(entities) :
        entities[i].normalized = entities[j].normalized => i = j

Yields(entities, type, normalized) ==
    \E i \in 1..Len(entities) :
        entities[i].type = type /\ entities[i].normalized = normalized

ListsReturned ==
    {r[1] : r \in {r \in {firstEntities, otherEntities, secondEntities} : r # << >>}}

\* C16: extractEntities is deterministic and stateless across calls: a second
\* call on the same text returns the list the first call returned, whatever
\* was extracted in between, and the patterns are left as they were compiled;
\* no returned list holds two entities with the same normalized key; a text
\* with the whole words 'Trump' and 'Fed' yields a person 'trump' and an
\* organization 'fed'; a text matching no dictionary entry yields the empty
\* list.
C16_Deterministic ==
    /\ lastIndex = CompiledLastIndex
    /\ secondEntities # << >> => secondEntities = firstEntities
    /\ \A entities \in ListsReturned : DistinctKeys(entities)
    /\ (firstEntities # << >> /\ HasWord(text, "Trump") /\ HasWord(text, "Fed"))
           => /\ Yields(firstEntities[1], "person", <<"trump">>)
              /\ Yields(firstEntities[1], "organization", <<"fed">>)
    /\ (firstEntities # << >> /\ MatchesNothing(text)) => firstEntities[1] = << >>
    /\ (otherEntities # << >> /\ MatchesNothing(otherText)) => otherEntities[1] = << >>

\* a text with 'Trump' and 'Fed' was extracted twice, another text in between
C16_Witness ==
    /\ secondEntities # << >>
    /\ otherEntities # << >>
    /\ otherEntities[1] # << >>
    /\ HasWord(text, "Trump")
    /\ HasWord(text, "Fed")
    /\ Len(secondEntities[1]) = 2

(***************************************************************************)
(* Properties of the temporal analyzer (SpecTemporal).                     *)
(***************************************************************************)
Parseable(d) == d # << >> /\ d[1].valid

\* the distance of two parseable dates in hours
HoursApart(d1, d2) == Abs(d2[1].t - d1[1].t)

\* the rational q is h hours, counted in days
IsDaysOf(q, h) == q.d > 0 /\ q.n * DAY_MS = h * q.d

Exchanged(precedence) ==
    IF precedence = "before" THEN "after"
    ELSE IF precedence = "after" THEN "before"
    ELSE "same"

ProximityOf(p, d1, d2) ==
    /\ p # << >>
    /\ IsDaysOf(p[1].daysDiff, HoursApart(d1, d2))
    /\ p[1].precedence = "same" <=> HoursApart(d1, d2) < DAY_MS
    /\ p[1].precedence = "before" <=>
           (HoursApart(d1, d2) >= DAY_MS /\ d2[1].t < d1[1].t)
    /\ p[1].precedence = "after" <=>
           (HoursApart(d1, d2) >= DAY_MS /\ d2[1].t > d1[1].t)
    /\ d1 = d2 => (p[1].daysDiff = QZero /\ p[1].precedence = "same")

\* C17: for two parseable dates computeTemporalProximity(a, b) returns
\* daysDiff = |b - a| in days and precedence 'same' iff |b - a| < 24 hours,
\* otherwise 'before' when b is earlier than a and 'after' when b is later;
\* identical dates give daysDiff 0 and 'same'; exchanging the arguments keeps
\* daysDiff and exchanges 'before' and 'after'.
C17_Proximity ==
    (Parseable(endDateA) /\ Parseable(endDateB)) =>
        /\ proximityAB # << >> => ProximityOf(proximityAB[1], endDateA, endDateB)
        /\ proximityBA # << >> => ProximityOf(proximityBA[1], endDateB, endDateA)
        /\ (proximityAB # << >> /\ proximityBA # << >>) =>
              /\ proximityBA[1][1].daysDiff = proximityAB[1][1].daysDiff
              /\ proximityBA[1][1].precedence = Exchanged(proximityAB[1][1].precedence)

\* both orders were computed for dates a day and a half apart
C17_Witness ==
    /\ Parseable(endDateA)
    /\ Parseable(endDateB)
    /\ proximityAB # << >>
    /\ proximityBA # << >>
    /\ proximityAB[1][1].precedence = "before"
    /\ proximityBA[1][1].precedence = "after"
    /\ proximityAB[1][1].daysDiff = Q(3, 2)

TemporalEdgesFound == temporalResult[1].edges

\* the end date of the market an edge leads to
TargetEndDate(e) == IF e.targetId = 2 THEN endDateB ELSE endDateC

\* weight = 1 - daysDiff / maxDaysDiff, daysDiff being the true distance
WeightIsLinear(e, m) ==
    /\ e.type = "temporal"
    /\ IsDaysOf(e.daysDiff[1], HoursApart(endDateA, TargetEndDate(e)))
    /\ e.weight.d > 0
    /\ e.weight.n * (m * e.daysDiff[1].d)
           = (m * e.daysDiff[1].d - e.daysDiff[1].n) * e.weight.d
    /\ e.daysDiff[1] = QZero => e.weight = QOne
    /\ e.daysDiff[1] = Q(m, 1) => e.weight = QZero

\* every edge weighs 1 - daysDiff/M, and a farther market weighs strictly less
LinearWeights ==
    temporalResult # << >> =>
        /\ \A i \in 1..Len(TemporalEdgesFound) :
              WeightIsLinear(TemporalEdgesFound[i], temporalResult[1].maxDaysDiff)
        /\ \A i, j \in 1..Len(TemporalEdgesFound) :
              QLess(TemporalEdgesFound[i].daysDiff[1], TemporalEdgesFound[j].daysDiff[1])
                  => QLess(TemporalEdgesFound[j].weight, TemporalEdgesFound[i].weight)

\* a market with precedence 'same' weighs 1.0
SameDayWeighsOne ==
    temporalResult # << >> =>
        \A i \in 1..Len(TemporalEdgesFound) :
            TemporalEdgesFound[i].precedence = <<"same">>
                => TemporalEdgesFound[i].weight = QOne

\* edges at distance 0 and at the maximum were produced, and one in between
LinearWeightsSeen ==
    /\ temporalResult # << >>
    /\ Len(TemporalEdgesFound) = 2
    /\ TemporalEdgesFound[1].weight = QOne
    /\ TemporalEdgesFound[2].weight = QZero

\* C18: every temporal edge of findTemporalDependencies with maximum M > 0
\* weighs exactly 1 - daysDiff/M (1.0 at daysDiff 0, 0.0 at daysDiff = M,
\* strictly decreasing in between), and every market resolving on the same
\* day as the center (precedence 'same') weighs 1.0.
C18_TemporalWeight ==
    /\ LinearWeights
    /\ SameDayWeighsOne

\* with maximum 1, a market resolving half a day after the center has
\* precedence 'same' and weighs one half
C18_Witness ==
    /\ temporalResult # << >>
    /\ temporalResult[1].maxDaysDiff = 1
    /\ \E i \in 1..Len(TemporalEdgesFound) :
          /\ TemporalEdgesFound[i].precedence = <<"same">>
          /\ TemporalEdgesFound[i].daysDiff = <<Q(1, 2)>>
          /\ TemporalEdgesFound[i].weight = Q(1, 2)

(***************************************************************************)
(* Properties of fetchMultiplePriceHistories (SpecFetch, SpecFetchFair).   *)
(***************************************************************************)
InFlight(k) == requests[k].status \in {"fetching", "reading"}

Issued(k) == requests[k].status # "unissued"

Settled(k) == requests[k].status = "fulfilled"

\* the batch of the k-th token, batches holding five tokens
BatchNumber(k) == (k - 1) \div 5

\* C19: at every moment at most 5 (BATCH_SIZE) price-history requests are in
\* flight, the requests of one batch are issued together, and no request of
\* a batch is issued before every request of the batch before it has settled.
C19_BoundedConcurrency ==
    /\ Cardinality({k \in DOMAIN requests : InFlight(k)}) <= 5
    /\ \A j, k \in DOMAIN requests :
          BatchNumber(j) = BatchNumber(k) => (Issued(j) <=> Issued(k))
    /\ \A j, k \in DOMAIN requests :
          (BatchNumber(j) < BatchNumber(k) /\ Issued(k)) => Settled(j)

\* the second batch is in flight after a first batch of five, one of which failed
C19_Witness ==
    /\ Len(tokenIds) >= 7
    /\ requests[6].status = "fetching"
    /\ requests[7].status = "reading"
    /\ \A k \in 1..5 : Settled(k)
    /\ ~requests[3].ok
    /\ requests[4].ok

Resolved == fetchPc = "resolved"

\* the series of a token as the function returns it (timestamps in ms)
SeriesOf(tokenId) ==
    << [timestamp |-> 1000 * tokenId, price |-> 40 + tokenId],
       [timestamp |-> 1000 * (tokenId + 60), price |-> 41 + tokenId] >>

\* every batch was processed and every succeeded key holds its series
AllProcessed ==
    /\ batchStart >= Len(tokenIds)
    /\ \A k \in DOMAIN requests : Settled(k)
    /\ \A k \in DOMAIN requests :
          requests[k].ok => MapGet(results, tokenIds[k]) = <<SeriesOf(tokenIds[k])>>

\* C20: provided each request eventually settles, fetchMultiplePriceHistories
\* eventually resolves, after processing every batch, and for every requested
\* key whose fetch succeeded the result map holds that key's series, whichever
\* other requests failed and in whatever order the requests completed.
C20_PartialFailure ==
    /\ <>Resolved
    /\ [](Resolved => AllProcessed)

\* resolved after two batches, each with a success and a failure
C20_Witness ==
    /\ Resolved
    /\ Len(tokenIds) >= 7
    /\ requests[1].ok
    /\ ~requests[2].ok
    /\ requests[6].ok
    /\ ~requests[7].ok
    /\ Len(results) = Len(tokenIds)

\* C21: the returned map has an entry only for keys whose fetch succeeded
\* with data: a key whose request failed (non-OK response or thrown error) or
\* returned no samples is missing, and every value is a non-empty series.
C21_FailedKeysMissing ==
    Resolved =>
        /\ \A k \in DOMAIN requests :
              (~requests[k].ok \/ requests[k].history = << >>)
                  => ~MapHas(results, tokenIds[k])
        /\ \A i \in 1..Len(results) : results[i].value # << >>

\* the call resolved, and the key of a failed request holds the empty series
C21_Witness ==
    /\ Resolved
    /\ \E k \in DOMAIN requests :
          /\ ~requests[k].ok
          /\ MapGet(results, tokenIds[k]) = << << >> >>
    /\ \E k \in DOMAIN requests : requests[k].ok

(***************************************************************************)
(* Further properties of the returned graph (Spec).                        *)
(***************************************************************************)
\* the markets that have a series in the histories map of the render
HistoryIds == {histories[i].key : i \in 1..Len(histories)}

\* the context of the same render had no series been delivered at all
WithoutSeries == ContextOf(selectedMarketId, filters, events, << >>)

CorrelationTargets(edges) ==
    {edges[i].targetId : i \in {j \in 1..Len(edges) : edges[j].type = "correlation"}}

\* C22: a series absent from the histories map means no signal, not failure:
\* the graph is still produced; a market without a series is never the target
\* of a correlation edge and its node has volatility 0; the structural, entity
\* and temporal candidates are those produced whatever series are present;
\* without the center's own series there are no correlation edges at all.
C22_AbsentSeries ==
    (Idle /\ selectedMarketId \in CatalogIds) =>
        /\ graph # << >>
        /\ \A m \in CatalogIds \ HistoryIds :
              /\ m \notin CorrelationTargets(correlationEdges)
              /\ m \notin CorrelationTargets(Edges)
              /\ \A i \in 1..Len(nodeMap) :
                    nodeMap[i].key = m => nodeMap[i].value.volatility = QZero
              /\ \A i \in 1..Len(Nodes) :
                    Nodes[i].id = m => Nodes[i].volatility = QZero
        /\ structuralEdges = structuralCandidates(WithoutSeries)
        /\ entityEdges = entityCandidates(WithoutSeries)
        /\ temporalEdges = temporalCandidates(WithoutSeries)
        /\ selectedMarketId \notin HistoryIds =>
              (correlationEdges = << >> /\ CorrelationTargets(Edges) = {})

\* series were delivered for some markets only: the graph has a correlation
\* edge, and a node for a market that has no series
C22_Witness ==
    /\ Returned
    /\ CorrelationTargets(Edges) # {}
    /\ \E i \in 1..Len(Nodes) :
          /\ Nodes[i].id \in CatalogIds \ HistoryIds
          /\ Nodes[i].id # selectedMarketId

(***************************************************************************)
(* Properties of the edge limit (SpecLimit).                               *)
(***************************************************************************)
BothLimited == retainedA # << >> /\ retainedB # << >>

\* the stored edges have pairwise different weights
DistinctWeights ==
    \A i, j \in 1..Len(edgeMapA) :
        edgeMapA[i].value.weight = edgeMapA[j].value.weight => i = j

\* without equal weights the retained edges are the same, in the same order
SameWhenWeightsDiffer ==
    (BothLimited /\ DistinctWeights) => retainedA = retainedB

\* C23: for the same deduplicated candidate edges presented in two insertion
\* orders, the set of edges retained after sorting by weight and truncating
\* to maxEdges is the same.
C23_OrderIndependent ==
    BothLimited => Range(retainedA[1]) = Range(retainedB[1])

\* two structural edges of weight 0.5 and room for one: each insertion order
\* retains the edge it inserted first
C23_Witness ==
    /\ BothLimited
    /\ maxEdgesArg = 1
    /\ Len(edgeMapA) = 2
    /\ \A i \in 1..2 : edgeMapA[i].value.type = "structural"
    /\ retainedA[1] = <<edgeMapA[1].value>>
    /\ retainedB[1] = <<edgeMapA[2].value>>

(***************************************************************************)
(* Properties of the graph memo on any histories map (SpecAssembler).      *)
(***************************************************************************)
NodeIds == {Nodes[i].id : i \in 1..Len(Nodes)}

\* no node twice, the center among the nodes, every edge from the center to
\* another market
CenteredGraph ==
    /\ \A i, j \in 1..Len(Nodes) : Nodes[i].id = Nodes[j].id => i = j
    /\ selectedMarketId \in NodeIds
    /\ \A i \in 1..Len(Edges) :
          /\ Edges[i].sourceId = selectedMarketId
          /\ Edges[i].targetId # selectedMarketId

NodesAreCatalogEndpoints ==
    Returned =>
        /\ CenteredGraph
        /\ NodeIds = {selectedMarketId} \cup (Targets(Edges) \cap CatalogIds)
        /\ HistoryIds \subseteq CatalogIds =>
              /\ Targets(Edges) \subseteq NodeIds
              /\ Len(Nodes) = Len(Edges) + 1

UnorderedPair(edge) ==
    CHOOSE pair \in {<<edge.sourceId, edge.targetId>>, <<edge.targetId, edge.sourceId>>} :
        ~StringLess(DecimalText(pair[2]), DecimalText(pair[1]))

BothVolatilities == volatilityGiven # << >> /\ volatilityReordered # << >>

BothCorrelations == correlationGiven # << >> /\ correlationReordered # << >>

\* C26: for a series with distinct timestamps, computeCorrelation and
\* computeVolatility return the same result for every order of its samples.
C26_OrderOfSamples ==
    /\ BothCorrelations => correlationGiven = correlationReordered
    /\ BothVolatilities => volatilityGiven = volatilityReordered

\* computeCorrelation does establish the order: its result is the same for
\* every order of the samples
CorrelationOrderFree == BothCorrelations => correlationGiven = correlationReordered

\* neither call reorders or changes the caller's arrays
CallerArraysKept ==
    [][/\ historyGiven' = historyGiven
       /\ historyReordered' = historyReordered
       /\ partner' = partner]_vars

\* both functions have run on samples that came out of order, and the
\* correlation is not a forced zero
C26_Witness ==
    /\ BothCorrelations
    /\ BothVolatilities
    /\ historyReordered # historyGiven
    /\ correlationGiven[1].n >= 3
    /\ correlationGiven[1].correlation # 0

(***************************************************************************)
(* The Pearson coefficient of the returns (SpecCorrelator).                *)
(***************************************************************************)
Clamped(correlation) == Max2(0 - 1000, Min2(1000, correlation))

\* the result for two arrays of returns of non-zero variance
IsPearsonOf(result, returnsA, returnsB) ==
    /\ result.correlation = Clamped(pearsonCorrelation(returnsA, returnsB))
    /\ result.n = Len(returnsA)

\* the returns of both aligned sides vary and there are at least count of them
Varying(returnsA, returnsB, count) ==
    /\ Len(returnsA) >= count
    /\ ~AllEqual(returnsA)
    /\ ~AllEqual(returnsB)

BothComputed == aligned # << >> /\ correlationAB # << >>

\* C27: whenever the aligned arrays give at least 3 returns that vary on both
\* sides, computeCorrelation returns the clamped Pearson coefficient of the
\* returns with n the number of returns; with fewer than 3 returns or a side
\* without variance the correlation is 0.
C27_PearsonOfReturns ==
    BothComputed =>
        IF Varying(computeReturns(aligned[1].alignedA),
                   computeReturns(aligned[1].alignedB), 3)
        THEN IsPearsonOf(correlationAB[1], computeReturns(aligned[1].alignedA),
                         computeReturns(aligned[1].alignedB))
        ELSE correlationAB[1].correlation = 0

\* what computeCorrelation does return: the Pearson coefficient from 4
\* returns (5 aligned points) on
PearsonFromFivePoints ==
    (BothComputed /\ Varying(computeReturns(aligned[1].alignedA),
                             computeReturns(aligned[1].alignedB), 4)) =>
        IsPearsonOf(correlationAB[1], computeReturns(aligned[1].alignedA),
                    computeReturns(aligned[1].alignedB))

\* four aligned points whose three returns vary on both sides and have a
\* Pearson coefficient other than 0
C27_Witness ==
    /\ BothComputed
    /\ Len(aligned[1].alignedA) = 4
    /\ Varying(computeReturns(aligned[1].alignedA),
               computeReturns(aligned[1].alignedB), 3)
    /\ pearsonCorrelation(computeReturns(aligned[1].alignedA),
                          computeReturns(aligned[1].alignedB)) # 0

(***************************************************************************)
(* Correlation edges of the returned graph (Spec).                         *)
(***************************************************************************)
CorrelationEdgesOf(edges) == SelectSeq(edges, LAMBDA e : e.type = "correlation")

\* the raw series of a market in the histories map, << >> when it has none
RawSeries(id) == IF MapHas(histories, id) THEN MapGet(histories, id)[1] ELSE << >>

\* the edge is what the correlation of the two raw series gives
FromResult(edge, result) ==
    /\ edge.correlation = <<result.correlation>>
    /\ Abs(result.correlation) >= filters.correlationThreshold
    /\ result.confidence > 300
    /\ edge.weight = Q(Abs(result.correlation), 1000)

CorrelationEdgeOk(edge) ==
    /\ Len(RawSeries(selectedMarketId)) >= 5
    /\ Len(RawSeries(edge.targetId)) >= 5
    /\ FromResult(edge, computeCorrelation(RawSeries(selectedMarketId),
                                           RawSeries(edge.targetId)))
    /\ edge.timeWindow = <<filters.timeWindow>>

\* C28: every correlation edge of a returned graph has |correlation| at or
\* above the filter's threshold, a confidence above 0.3, raw series of at
\* least 5 points on both ends, weight |correlation| and the filter's time
\* window; there is none when histories holds fewer than 2 series or the
\* center's series has fewer than 5 points.
C28_CorrelationEdges ==
    Returned =>
        /\ \A i \in 1..Len(Edges) :
              Edges[i].type = "correlation" => CorrelationEdgeOk(Edges[i])
        /\ (Len(histories) < 2 \/ Len(RawSeries(selectedMarketId)) < 5) =>
              /\ CorrelationEdgesOf(Edges) = << >>
              /\ correlationEdges = << >>

\* a graph with a correlation edge under the threshold 0.6, the series of a
\* third market being left without an edge
C28_Witness ==
    /\ Returned
    /\ filters.correlationThreshold > 0
    /\ CorrelationEdgesOf(Edges) # << >>
    /\ \E id \in HistoryIds \ {selectedMarketId} :
          /\ Len(RawSeries(id)) >= 5
          /\ id \notin CorrelationTargets(Edges)
          /\ filters.dependencyType = "correlation"
          /\ filters.showCrossEvent
          /\ filters.maxEdges > Len(Edges)

\* no correlation edge for want of series: one series only, or a center
\* with fewer than 5 points
NoSeriesNoEdge ==
    /\ Returned
    /\ filters.dependencyType = "correlation"
    /\ Len(histories) >= 1
    /\ Len(histories) < 2 \/ Len(RawSeries(selectedMarketId)) < 5

(***************************************************************************)
(* Entity dependencies (SpecEntityDeps).                                   *)
(***************************************************************************)
NormalizedKeys(entities) == {entities[i].normalized : i \in 1..Len(entities)}

\* the normalized keys the target's entities share with those of a market's
\* question and event title
SharedKeys(market) ==
    NormalizedKeys(targetEntitiesArg)
        \cap NormalizedKeys(MarketEntities(market, catalogArg))

OtherMarkets ==
    {m \in Range(allMarketsOf(catalogArg)) : m.id # targetIdArg}

\* the markets that share at least minSharedEntities keys with the target
Dependent ==
    {m.id : m \in {o \in OtherMarkets : Cardinality(SharedKeys(o)) >= minSharedArg}}

NamesOf(keys) ==
    {targetEntitiesArg[i].name :
        i \in {j \in 1..Len(targetEntitiesArg) : targetEntitiesArg[j].normalized \in keys}}

\* the edge to a market that shares the keys of shared with the target
EntityEdgeOk(edge, shared) ==
    /\ edge.sourceId = targetIdArg
    /\ edge.type = "entity"
    /\ edge.weight = (IF 3 * Cardinality(shared) >= 10 THEN Q(1, 1)
                      ELSE Q(3 * Cardinality(shared), 10))
    /\ Len(edge.sharedEntities[1]) = Cardinality(shared)
    /\ Range(edge.sharedEntities[1]) = NamesOf(shared)

EntityEdgesOk(edges) ==
    /\ \A i, j \in 1..Len(edges) : edges[i].targetId = edges[j].targetId => i = j
    /\ Targets(edges) = Dependent
    /\ \A i \in 1..Len(edges) :
          \A m \in OtherMarkets :
              m.id = edges[i].targetId => EntityEdgeOk(edges[i], SharedKeys(m))
    /\ \A i, j \in 1..Len(edges) : i < j => ~QLess(edges[i].weight, edges[j].weight)

\* C29: findEntityBasedDependencies emits an edge from the target to a market
\* other than the target iff the number k of distinct normalized keys they
\* share is at least minSharedEntities; the edge weighs min(1, 0.3 k) and
\* lists each shared entity once; the edges are ordered by weight descending;
\* with no target entities no edge is emitted.
C29_EntityDependencies ==
    dependencies # << >> =>
        IF targetEntitiesArg = << >> THEN dependencies[1] = << >>
        ELSE EntityEdgesOk(dependencies[1])

\* a target whose entity list names one key twice; the sort has put an edge
\* of two shared entities before the edge of one that was found earlier
C29_Witness ==
    /\ dependencies # << >>
    /\ minSharedArg >= 1
    /\ Len(targetEntitiesArg) > Cardinality(NormalizedKeys(targetEntitiesArg))
    /\ Len(dependencies[1]) = 3
    /\ Len(dependencies[1][2].sharedEntities[1]) = 2
    /\ Len(dependencies[1][3].sharedEntities[1]) = 1
    /\ dependencies[1][3].targetId < dependencies[1][2].targetId

(***************************************************************************)
(* Temporal edges of the returned graph (Spec).                            *)
(***************************************************************************)
TemporalEdgesOf(edges) == SelectSeq(edges, LAMBDA e : e.type = "temporal")

\* the resolution date of a market of the catalog: its own, else its event's
ResolutionDate(id) ==
    getMarketEndDate(FindMarket(allMarketsOf(events), id)[1], events)

\* the edge leads to a market with a date that parses, the center having one
\* too, and is at most maxDaysDiff days away
WithinDays(edge, maxDaysDiff) ==
    /\ Parseable(ResolutionDate(selectedMarketId))
    /\ Parseable(ResolutionDate(edge.targetId))
    /\ IsDaysOf(edge.daysDiff[1],
                HoursApart(ResolutionDate(selectedMarketId), ResolutionDate(edge.targetId)))
    /\ QLeq(edge.daysDiff[1], Q(maxDaysDiff, 1))

\* C30: every temporal edge of a returned graph has daysDiff at or below
\* filters.maxDaysDiff, for every value of the filter, 0 included, and leads
\* to a market whose resolution date is there and parses; there is none when
\* the center has no resolution date.
C30_WithinMaxDaysDiff ==
    Returned =>
        \A i \in 1..Len(Edges) :
            Edges[i].type = "temporal" => WithinDays(Edges[i], filters.maxDaysDiff)

\* what the hook does keep: the maximum is filters.maxDaysDiff || 14, and the
\* dates of both ends are there and parse, among the candidates too
WithinDefaultedMaxDaysDiff ==
    Returned =>
        /\ \A i \in 1..Len(Edges) :
              Edges[i].type = "temporal" =>
                  WithinDays(Edges[i], OrDefault(filters.maxDaysDiff, 14))
        /\ \A i \in 1..Len(temporalEdges) :
              WithinDays(temporalEdges[i], OrDefault(filters.maxDaysDiff, 14))

\* a returned graph under maxDaysDiff = 0 with a temporal edge
C30_Witness ==
    /\ Returned
    /\ filters.maxDaysDiff = 0
    /\ TemporalEdgesOf(Edges) # << >>

\* a render with the temporal producer enabled for a center without a date,
\* or next to markets without a date that parses
DatesMissing ==
    /\ Returned
    /\ filters.dependencyType \in {"all", "temporal"}
    /\ \/ ~Parseable(ResolutionDate(selectedMarketId))
       \/ \E id \in CatalogIds : ~Parseable(ResolutionDate(id))

====
